---------------------------- MODULE Spec2Model ----------------------------
(***************************************************************************)
(* The analysis engine of ozark (backend/app): one run of                  *)
(* run_analysis_pipeline over the transactions of one dataset.             *)
(*                                                                         *)
(*   _load_transactions_df -> analyze_networks (smurfing, graph, cycle     *)
(*   search, shells) -> assign_risk_scores -> build_graph_payload ->       *)
(*   build_structured_output (rings, suspicious accounts, summary) ->      *)
(*   the UPDATE of analysis_results.                                       *)
(*                                                                         *)
(* Account ids are numbers; they stand for id strings whose lexicographic  *)
(* order (Python's sorted) is the numeric order.                           *)
(* Timestamps are whole hours; a pandas Timedelta of 72 hours is 72.       *)
(***************************************************************************)
EXTENDS Integers, Sequences, FiniteSets, TLC

(***************************************************************************)
(* Bounds of the model.                                                    *)
(***************************************************************************)
MaxEdges == 4         \* distinct (sender, receiver) pairs in a ledger
MaxBulk == 1          \* how many of those pairs carry BulkRows transactions
BulkRows == 10        \* transactions of a bulk pair
MaxArcs == 4          \* arcs of a graph of the cycle search's small family
MaxChords == 2        \* arcs added to a directed ring of 5 or 6 accounts
MaxRows == 11         \* rows of the account a smurfing rule is tried on
MaxScoreNodes == 2    \* nodes handed to assign_risk_scores on its own
MaxExtra == 2         \* transfers added to the three of a triangle
MaxOrderArcs == 3     \* transfers of a ledger stored in every row order
MaxRuns == 2          \* analyses of one dataset, one after the other
MaxHops == 2          \* radius of the ego-networks of a search
MaxSideArcs == 3      \* transfers within one of the two groups of a search's graph
MaxSearches == 2      \* isomorphism searches on one analysis

(***************************************************************************)
(* Constants of the program.                                               *)
(***************************************************************************)
MinGroupRows == 10    \* len(group) >= 10
DiffPeriods == 9      \* group["timestamp"].diff(periods=9)
td_72 == 72           \* pd.Timedelta(hours=72)
max_depth == 5        \* max_depth = 5
MinCycleDepth == 3    \* depth >= 3
ShellLow == 2         \* node_counts >= 2
ShellHigh == 3        \* node_counts <= 3
ScoreCycle == 40      \* score += 40
ScoreFanIn == 35      \* score += 35 (fan_in)
ScoreFanOut == 35     \* score += 35 (fan_out)
ScoreShell == 25      \* score += 25
ScoreCap == 100       \* min(score, 100)
HighThreshold == 40   \* "High" if score >= 40
MinComponent == 2     \* len(component) >= 2
MinCluster == 3       \* len(cluster) >= 3
length_bound == 6     \* nx.simple_cycles(..., length_bound=6)

\* The account ids: six accounts, of which the ledgers of whole runs use the
\* first four.
Accounts == 1 .. 9

LedgerAccounts == 1 .. 4

\* A NULL timestamp column of the transactions table, and pandas' NaT.
NULL == -2
NaT == -1

Min(a, b) == IF a <= b THEN a ELSE b

Range(s) == {s[i] : i \in 1 .. Len(s)}

Contains(s, x) == \E i \in 1 .. Len(s) : s[i] = x

\* Python's sorted() of a set of account ids.
RECURSIVE Sorted(_)
Sorted(S) ==
    IF S = {} THEN <<>>
    ELSE LET m == CHOOSE x \in S : \A y \in S : x <= y
         IN  <<m>> \o Sorted(S \ {m})

(***************************************************************************)
(* The ledgers the runs are checked on.  A ledger is the rows of the       *)
(* transactions table of one dataset, in insertion order (upload_file      *)
(* stores the rows of the uploaded file in file order).  It is generated   *)
(* from a set of at most MaxEdges (sender, receiver) pairs in ascending    *)
(* order, of which at most MaxBulk carry BulkRows transactions each, and   *)
(* one of three timestamp patterns.  The pairs are transfers between four  *)
(* accounts, or transfers and self-transfers among the first three.        *)
(***************************************************************************)
Pairs == {p \in LedgerAccounts \X LedgerAccounts : p[1] # p[2]}

LoopPairs == (1 .. 3) \X (1 .. 3)

StampPatterns == {"reverse", "spread", "null"}

\* The timestamp of the j-th row of the i-th of k pairs.  "reverse": the
\* pairs an hour apart, last pair first, a pair's rows at one time.
\* "spread": the pairs in order, every row 9 hours after the row before it
\* (10 rows span 81 hours).  "null": the first pair's rows without a
\* timestamp, all other rows at one time.
Stamp(pattern, i, k, j) ==
    CASE pattern = "reverse" -> k - i
      [] pattern = "spread" -> (i * (BulkRows + 1) + j) * 9
      [] pattern = "null" -> IF i = 1 THEN NULL ELSE 0

\* The pairs of a set in ascending (sender, receiver) order.
RECURSIVE PairSeq(_)
PairSeq(S) ==
    IF S = {} THEN <<>>
    ELSE LET m == CHOOSE p \in S :
                    \A q \in S : p[1] < q[1] \/ (p[1] = q[1] /\ p[2] <= q[2])
         IN  <<m>> \o PairSeq(S \ {m})

RECURSIVE ExpandFrom(_, _, _, _)
ExpandFrom(ps, bulk, pattern, i) ==
    IF i > Len(ps) THEN <<>>
    ELSE [j \in 1 .. (IF ps[i] \in bulk THEN BulkRows ELSE 1) |->
            [sender_id |-> ps[i][1], receiver_id |-> ps[i][2],
             timestamp |-> Stamp(pattern, i, Len(ps), j)]]
         \o ExpandFrom(ps, bulk, pattern, i + 1)

EdgeSets == {S \in SUBSET Pairs : Cardinality(S) <= MaxEdges}
            \cup {S \in SUBSET LoopPairs : Cardinality(S) <= MaxEdges}

BulkSets(S) == {B \in SUBSET S : Cardinality(B) <= MaxBulk}

VARIABLES
    ledger,               \* transactions table: the dataset's rows
    dataset_status,       \* datasets.status
    analysis,             \* the analysis_results row (committed)
    analysis_results,     \* the rows of the dataset's earlier analyses
    pc,                   \* where run_analysis_pipeline is
    df,                   \* the loaded DataFrame (rows in order)
    G,                    \* the DiGraph: nodes, succ, pred in insertion order
    flags,                \* cycles, fan_in, fan_out, shells
    start_idx,            \* position of start_node in G.nodes()
    stack,                \* the cycle search's stack
    found_cycle,
    suspect_cycle_nodes,
    risk_df,              \* one row per node
    graph_payload,
    fraud_rings,
    ring_counter,
    account_ring_map,
    todo,                 \* what the current loop has still to iterate over
    suspicious_accounts,
    summary,
    search,               \* what find_structural_clones was asked and returned
    exc                   \* the exception the except clause has caught: str(exc)

vars == <<ledger, dataset_status, analysis, analysis_results, pc, df, G, flags, start_idx, stack,
          found_cycle, suspect_cycle_nodes, risk_df, graph_payload, fraud_rings,
          ring_counter, account_ring_map, todo, suspicious_accounts, summary,
          search, exc>>

db_vars == <<ledger, dataset_status, analysis, analysis_results>>
analyze_vars == <<df, G, flags, start_idx, stack, found_cycle, suspect_cycle_nodes>>
output_vars == <<risk_df, graph_payload, fraud_rings, ring_counter,
                 account_ring_map, todo, suspicious_accounts, summary>>

(***************************************************************************)
(* The state after start_analysis: the dataset is uploaded, the analysis   *)
(* row exists with status pending and the task is queued.                  *)
(***************************************************************************)
EmptyGraph ==
    [nodes |-> <<>>,
     succ |-> [a \in Accounts |-> <<>>],
     pred |-> [a \in Accounts |-> <<>>]]

EmptyFlags == [cycles |-> {}, fan_in |-> {}, fan_out |-> {}, shells |-> {}]

NoMap == [a \in {} |-> 0]

PendingAnalysis ==
    [status |-> "pending", error_message |-> <<>>, graph_json |-> <<>>,
     risk_json |-> <<>>, flags_json |-> <<>>, stats_json |-> <<>>,
     completed_at |-> <<>>]

\* Nothing computed yet.
Fresh ==
    /\ start_idx = 0
    /\ stack = <<>>
    /\ found_cycle = FALSE
    /\ suspect_cycle_nodes = {}
    /\ risk_df = <<>>
    /\ graph_payload = <<>>
    /\ fraud_rings = <<>>
    /\ ring_counter = 0
    /\ account_ring_map = NoMap
    /\ todo = <<>>
    /\ suspicious_accounts = <<>>
    /\ summary = <<>>
    /\ search = <<>>
    /\ exc = <<>>

Locals ==
    /\ pc = "queued"
    /\ df = <<>>
    /\ G = EmptyGraph
    /\ flags = EmptyFlags
    /\ Fresh

Init ==
    /\ \E S \in EdgeSets : \E bulk \in BulkSets(S) : \E pattern \in StampPatterns :
           ledger = ExpandFrom(PairSeq(S), bulk, pattern, 1)
    /\ dataset_status = "analyzing"
    /\ analysis = PendingAnalysis
    /\ analysis_results = <<>>
    /\ Locals

(***************************************************************************)
(* run_analysis_pipeline: mark the analysis as running (committed).        *)
(***************************************************************************)
MarkRunning ==
    /\ pc = "queued"
    /\ analysis' = [analysis EXCEPT !.status = "running"]
    /\ pc' = "load"
    /\ UNCHANGED <<search, exc, ledger, dataset_status, analysis_results, analyze_vars,
                   output_vars>>

(***************************************************************************)
(* _load_transactions_df: SELECT ... ORDER BY timestamp (PostgreSQL sorts  *)
(* NULLs last), ValueError when there is no row, to_datetime with          *)
(* errors="coerce" turning NULL into NaT.                                  *)
(***************************************************************************)
Missing(t) == t = NULL \/ t = NaT

\* Row a sorts strictly after row b: missing timestamps last.
Later(a, b) ==
    \/ Missing(a.timestamp) /\ ~Missing(b.timestamp)
    \/ ~Missing(a.timestamp) /\ ~Missing(b.timestamp) /\ a.timestamp > b.timestamp

RECURSIVE InsertRow(_, _)
InsertRow(row, sorted) ==
    IF sorted = <<>> THEN <<row>>
    ELSE IF Later(Head(sorted), row) THEN <<row>> \o sorted
         ELSE <<Head(sorted)>> \o InsertRow(row, Tail(sorted))

\* Rows in ascending timestamp order, rows with equal timestamps in their
\* given order.
RECURSIVE SortByTimestamp(_)
SortByTimestamp(rows) ==
    IF rows = <<>> THEN <<>>
    ELSE InsertRow(rows[Len(rows)],
                   SortByTimestamp(SubSeq(rows, 1, Len(rows) - 1)))

to_datetime(t) == IF t = NULL THEN NaT ELSE t

LoadRaises(rows) == rows = <<>>

_load_transactions_df(rows) ==
    LET ordered == SortByTimestamp(rows)
    IN  [i \in 1 .. Len(ordered) |->
            [ordered[i] EXCEPT !.timestamp = to_datetime(ordered[i].timestamp)]]

\* str(exc) of the ValueError of _load_transactions_df.
NoRows == "No transactions found for dataset"

LoadTransactions ==
    /\ pc = "load"
    /\ IF LoadRaises(ledger)
       THEN pc' = "except" /\ df' = df /\ exc' = <<NoRows>>
       ELSE pc' = "smurfing" /\ df' = _load_transactions_df(ledger) /\ exc' = exc
    /\ UNCHANGED <<search, db_vars, G, flags, start_idx, stack, found_cycle,
                   suspect_cycle_nodes, output_vars>>

(***************************************************************************)
(* The except branch: rollback, then status failed with the message,       *)
(* committed; the exception is raised again.                               *)
(***************************************************************************)
HandleException ==
    /\ pc = "except"
    /\ analysis' = [analysis EXCEPT !.status = "failed",
                                    !.error_message = exc]
    /\ pc' = "raised"
    /\ UNCHANGED <<search, exc, ledger, dataset_status, analysis_results, analyze_vars,
                   output_vars>>

(***************************************************************************)
(* analyze_networks, step 1: smurfing (fan-in / fan-out within 72 hours).  *)
(***************************************************************************)
\* df.sort_values("timestamp"): ascending, NaT last.
sort_values(rows) == SortByTimestamp(rows)

\* One group of groupby(key): the rows of the key's value, in the frame's order.
Group(rows, key, a) == SelectSeq(rows, LAMBDA r : r[key] = a)

\* Series.diff(periods): <<>> is a missing difference (NaT).
Diff(ts, periods) ==
    [i \in 1 .. Len(ts) |->
        IF i <= periods \/ ts[i] = NaT \/ ts[i - periods] = NaT
        THEN <<>>
        ELSE <<ts[i] - ts[i - periods]>>]

\* A faulty variant: a difference of exactly 72 hours does not count.
AnyBelow(diffs) ==
    \E i \in 1 .. Len(diffs) : diffs[i] # <<>> /\ diffs[i][1] < td_72

\* (diffs <= td_72).any(): a comparison with NaT is False.
AnyWithin(diffs) ==
    \E i \in 1 .. Len(diffs) : diffs[i] # <<>> /\ diffs[i][1] <= td_72

GroupFlagged(group) ==
    /\ Len(group) >= MinGroupRows
    /\ AnyWithin(Diff([i \in 1 .. Len(group) |-> group[i].timestamp],
                      DiffPeriods))

\* The accounts flagged by one of the two loops (key: receiver_id or sender_id).
Smurfs(rows, key) ==
    LET df_sorted == sort_values(rows)
    IN  {a \in {rows[i][key] : i \in 1 .. Len(rows)} :
            GroupFlagged(Group(df_sorted, key, a))}

Smurfing ==
    /\ pc = "smurfing"
    /\ flags' = [flags EXCEPT !.fan_in = Smurfs(df, "receiver_id"),
                              !.fan_out = Smurfs(df, "sender_id")]
    /\ pc' = "build_graph"
    /\ UNCHANGED <<search, exc, db_vars, df, G, start_idx, stack, found_cycle,
                   suspect_cycle_nodes, output_vars>>

(***************************************************************************)
(* Step 2: nx.from_pandas_edgelist(df, ..., create_using=nx.DiGraph()).    *)
(* Nodes and adjacency keep insertion order; a repeated edge is kept once. *)
(***************************************************************************)
AppendNew(s, x) == IF Contains(s, x) THEN s ELSE Append(s, x)

add_edge(g, u, v) ==
    [nodes |-> AppendNew(AppendNew(g.nodes, u), v),
     succ |-> [g.succ EXCEPT ![u] = AppendNew(@, v)],
     pred |-> [g.pred EXCEPT ![v] = AppendNew(@, u)]]

\* A faulty variant: the rows without a timestamp are left out of the graph.
RECURSIVE from_stamped_edgelist(_)
from_stamped_edgelist(rows) ==
    IF rows = <<>> THEN EmptyGraph
    ELSE LET g == from_stamped_edgelist(SubSeq(rows, 1, Len(rows) - 1))
             row == rows[Len(rows)]
         IN  IF row.timestamp = NaT THEN g
             ELSE add_edge(g, row.sender_id, row.receiver_id)

RECURSIVE from_pandas_edgelist(_)
from_pandas_edgelist(rows) ==
    IF rows = <<>> THEN EmptyGraph
    ELSE add_edge(from_pandas_edgelist(SubSeq(rows, 1, Len(rows) - 1)),
                  rows[Len(rows)].sender_id, rows[Len(rows)].receiver_id)

BuildGraph ==
    /\ pc = "build_graph"
    /\ G' = from_pandas_edgelist(df)
    /\ pc' = "cycles"
    /\ UNCHANGED <<search, exc, db_vars, df, flags, start_idx, stack, found_cycle,
                   suspect_cycle_nodes, output_vars>>

(***************************************************************************)
(* Step 3: the cycle search.  CycleNextStart is one turn of the loop over  *)
(* G.nodes(), CyclePop one turn of the while loop (a pop and the scan of   *)
(* the popped node's successors), CycleFinish the update of flags.         *)
(***************************************************************************)
StackEntry(n, path, d) == [curr |-> n, path_nodes |-> path, depth |-> d]

CycleNextStart ==
    /\ pc = "cycles"
    /\ start_idx < Len(G.nodes)
    /\ start_idx' = start_idx + 1
    /\ LET start_node == G.nodes[start_idx + 1]
       IN  IF start_node \in suspect_cycle_nodes
           THEN /\ pc' = "cycles"
                /\ UNCHANGED <<search, exc, stack, found_cycle>>
           ELSE /\ stack' = <<StackEntry(start_node, {start_node}, 1)>>
                /\ found_cycle' = FALSE
                /\ pc' = "dfs"
    /\ UNCHANGED <<search, exc, db_vars, df, G, flags, suspect_cycle_nodes, output_vars>>

\* A faulty variant: a search that does not walk through accounts it has
\* flagged already.
RECURSIVE ScanUnflagged(_, _, _, _, _)
ScanUnflagged(g, start_node, e, k, stk) ==
    IF k > Len(g.succ[e.curr]) THEN [stack |-> stk, found |-> FALSE]
    ELSE LET neighbor == g.succ[e.curr][k]
         IN  IF neighbor = start_node /\ e.depth >= MinCycleDepth
             THEN [stack |-> stk, found |-> TRUE]
             ELSE IF /\ neighbor \notin e.path_nodes
                     /\ neighbor \notin suspect_cycle_nodes
                     /\ e.depth < max_depth
                  THEN ScanUnflagged(g, start_node, e, k + 1,
                           Append(stk, StackEntry(neighbor,
                                                  e.path_nodes \cup {neighbor},
                                                  e.depth + 1)))
                  ELSE ScanUnflagged(g, start_node, e, k + 1, stk)

\* A faulty variant: a search that takes a return to the start node for a
\* cycle from depth 2 on.
RECURSIVE ScanFromTwo(_, _, _, _, _)
ScanFromTwo(g, start_node, e, k, stk) ==
    IF k > Len(g.succ[e.curr]) THEN [stack |-> stk, found |-> FALSE]
    ELSE LET neighbor == g.succ[e.curr][k]
         IN  IF neighbor = start_node /\ e.depth >= 2
             THEN [stack |-> stk, found |-> TRUE]
             ELSE IF neighbor \notin e.path_nodes /\ e.depth < max_depth
                  THEN ScanFromTwo(g, start_node, e, k + 1,
                           Append(stk, StackEntry(neighbor,
                                                  e.path_nodes \cup {neighbor},
                                                  e.depth + 1)))
                  ELSE ScanFromTwo(g, start_node, e, k + 1, stk)

\* A faulty variant: a search that still pushes at depth max_depth.
RECURSIVE ScanDeeper(_, _, _, _, _)
ScanDeeper(g, start_node, e, k, stk) ==
    IF k > Len(g.succ[e.curr]) THEN [stack |-> stk, found |-> FALSE]
    ELSE LET neighbor == g.succ[e.curr][k]
         IN  IF neighbor = start_node /\ e.depth >= MinCycleDepth
             THEN [stack |-> stk, found |-> TRUE]
             ELSE IF neighbor \notin e.path_nodes /\ e.depth <= max_depth
                  THEN ScanDeeper(g, start_node, e, k + 1,
                           Append(stk, StackEntry(neighbor,
                                                  e.path_nodes \cup {neighbor},
                                                  e.depth + 1)))
                  ELSE ScanDeeper(g, start_node, e, k + 1, stk)

\* A faulty variant: a scan that notes the cycle and goes on to the remaining
\* successors instead of breaking out.
RECURSIVE ScanNoBreak(_, _, _, _, _)
ScanNoBreak(g, start_node, e, k, stk) ==
    IF k > Len(g.succ[e.curr]) THEN [stack |-> stk, found |-> FALSE]
    ELSE LET neighbor == g.succ[e.curr][k]
         IN  IF neighbor = start_node /\ e.depth >= MinCycleDepth
             THEN [stack |-> ScanNoBreak(g, start_node, e, k + 1, stk).stack,
                   found |-> TRUE]
             ELSE IF neighbor \notin e.path_nodes /\ e.depth < max_depth
                  THEN ScanNoBreak(g, start_node, e, k + 1,
                           Append(stk, StackEntry(neighbor,
                                                  e.path_nodes \cup {neighbor},
                                                  e.depth + 1)))
                  ELSE ScanNoBreak(g, start_node, e, k + 1, stk)

\* The for loop over G.successors(curr), from its k-th successor on: the
\* stack it leaves and whether it broke out on a cycle.
RECURSIVE ScanSuccessors(_, _, _, _, _)
ScanSuccessors(g, start_node, e, k, stk) ==
    IF k > Len(g.succ[e.curr]) THEN [stack |-> stk, found |-> FALSE]
    ELSE LET neighbor == g.succ[e.curr][k]
         IN  IF neighbor = start_node /\ e.depth >= MinCycleDepth
             THEN [stack |-> stk, found |-> TRUE]
             ELSE IF neighbor \notin e.path_nodes /\ e.depth < max_depth
                  THEN ScanSuccessors(g, start_node, e, k + 1,
                           Append(stk, StackEntry(neighbor,
                                                  e.path_nodes \cup {neighbor},
                                                  e.depth + 1)))
                  ELSE ScanSuccessors(g, start_node, e, k + 1, stk)

CyclePop ==
    /\ pc = "dfs"
    /\ stack # <<>> /\ ~found_cycle
    /\ LET e == stack[Len(stack)]
           r == ScanSuccessors(G, G.nodes[start_idx], e, 1,
                               SubSeq(stack, 1, Len(stack) - 1))
       IN  /\ stack' = r.stack
           /\ found_cycle' = r.found
           /\ suspect_cycle_nodes' =
                  IF r.found THEN suspect_cycle_nodes \cup e.path_nodes
                  ELSE suspect_cycle_nodes
           /\ pc' = IF r.stack # <<>> /\ ~r.found THEN "dfs" ELSE "cycles"
    /\ UNCHANGED <<search, exc, db_vars, df, G, flags, start_idx, output_vars>>

CycleFinish ==
    /\ pc = "cycles"
    /\ start_idx = Len(G.nodes)
    /\ flags' = [flags EXCEPT !.cycles = @ \cup suspect_cycle_nodes]
    /\ pc' = "shells"
    /\ UNCHANGED <<search, exc, db_vars, df, G, start_idx, stack, found_cycle,
                   suspect_cycle_nodes, output_vars>>

(***************************************************************************)
(* Step 4: layered shell detection.                                        *)
(***************************************************************************)
\* value_counts of the sender column followed by the receiver column.
node_counts(rows, a) ==
    Cardinality({i \in 1 .. Len(rows) : rows[i].sender_id = a})
    + Cardinality({i \in 1 .. Len(rows) : rows[i].receiver_id = a})

shell_candidates(rows) ==
    {a \in Accounts : node_counts(rows, a) >= ShellLow
                      /\ node_counts(rows, a) <= ShellHigh}

\* The orders a set can be iterated in.
Orderings(S) ==
    {o \in [1 .. Cardinality(S) -> S] :
        \A i, j \in 1 .. Cardinality(S) : o[i] = o[j] => i = j}

\* A faulty variant: a loop that passes over the candidates it has flagged.
RECURSIVE ShellVisitOnce(_, _, _, _, _)
ShellVisitOnce(g, cand, order, k, shells) ==
    IF k > Len(order) THEN shells
    ELSE LET node == order[k]
             hit == Range(g.succ[node]) \cap cand
         IN  IF ~Contains(g.nodes, node) \/ node \in shells
             THEN ShellVisitOnce(g, cand, order, k + 1, shells)
             ELSE IF hit # {}
                  THEN ShellVisitOnce(g, cand, order, k + 1,
                                      shells \cup {node} \cup hit)
                  ELSE ShellVisitOnce(g, cand, order, k + 1, shells)

\* for node in shell_candidates, from the k-th candidate of the iteration
\* order on: flags["shells"] when the loop ends.
RECURSIVE ShellVisit(_, _, _, _, _)
ShellVisit(g, cand, order, k, shells) ==
    IF k > Len(order) THEN shells
    ELSE LET node == order[k]
             hit == Range(g.succ[node]) \cap cand
         IN  IF ~Contains(g.nodes, node)
             THEN ShellVisit(g, cand, order, k + 1, shells)
             ELSE IF hit # {}
                  THEN ShellVisit(g, cand, order, k + 1,
                                  shells \cup {node} \cup hit)
                  ELSE ShellVisit(g, cand, order, k + 1, shells)

\* The shell flags when the set of candidates is iterated in the given order.
ShellFlags(g, rows, order) ==
    ShellVisit(g, shell_candidates(rows), order, 1, {})

Shells ==
    /\ pc = "shells"
    /\ \E order \in Orderings(shell_candidates(df)) :
           flags' = [flags EXCEPT !.shells = @ \cup ShellFlags(G, df, order)]
    /\ pc' = "score"
    /\ UNCHANGED <<search, exc, db_vars, df, G, start_idx, stack, found_cycle,
                   suspect_cycle_nodes, output_vars>>

(***************************************************************************)
(* assign_risk_scores(list(G.nodes()), flags).  risk_scores is a dict      *)
(* keyed by node, so the frame has one row per distinct node, in the order *)
(* of first occurrence.  risk_level is read from the score before the cap. *)
(***************************************************************************)
RECURSIVE DictKeys(_)
DictKeys(nodes) ==
    IF nodes = <<>> THEN <<>>
    ELSE AppendNew(DictKeys(SubSeq(nodes, 1, Len(nodes) - 1)), nodes[Len(nodes)])

RawScore(node, f) ==
    (IF node \in f.cycles THEN ScoreCycle ELSE 0)
    + (IF node \in f.fan_in THEN ScoreFanIn ELSE 0)
    + (IF node \in f.fan_out THEN ScoreFanOut ELSE 0)
    + (IF node \in f.shells THEN ScoreShell ELSE 0)

\* A faulty variant: High only above the threshold.
risk_level_above(score) ==
    IF score > HighThreshold THEN "High"
    ELSE IF score > 0 THEN "Medium" ELSE "Low"

risk_level(score) ==
    IF score >= HighThreshold THEN "High"
    ELSE IF score > 0 THEN "Medium" ELSE "Low"

Reasons(node, f) ==
    LET r == (IF node \in f.cycles THEN <<"Cycle (Ring)">> ELSE <<>>)
             \o (IF node \in f.fan_in THEN <<"Fan-in (Aggregator)">> ELSE <<>>)
             \o (IF node \in f.fan_out THEN <<"Fan-out (Disperser)">> ELSE <<>>)
             \o (IF node \in f.shells THEN <<"Shell Layer">> ELSE <<>>)
    IN  IF r = <<>> THEN <<"Normal">> ELSE r

\* A faulty variant: the score stored without the cap.
RiskRowUncapped(node, f) ==
    [account_id |-> node,
     score |-> RawScore(node, f),
     risk_level |-> risk_level(RawScore(node, f)),
     reasons |-> Reasons(node, f)]

RiskRow(node, f) ==
    [account_id |-> node,
     score |-> Min(RawScore(node, f), ScoreCap),
     risk_level |-> risk_level(RawScore(node, f)),
     reasons |-> Reasons(node, f)]

assign_risk_scores(nodes, f) ==
    LET keys == DictKeys(nodes)
    IN  [i \in 1 .. Len(keys) |-> RiskRow(keys[i], f)]

AssignRiskScores ==
    /\ pc = "score"
    /\ risk_df' = assign_risk_scores(G.nodes, flags)
    /\ pc' = "payload"
    /\ UNCHANGED <<search, exc, db_vars, analyze_vars, graph_payload, fraud_rings,
                   ring_counter, account_ring_map, todo, suspicious_accounts,
                   summary>>

(***************************************************************************)
(* build_graph_payload(df, risk_df, match_nodes, match_edges).             *)
(***************************************************************************)
\* risk_df.set_index("account_id").to_dict("index"), then .get(n, default).
risk_lookup(rdf, n) ==
    IF \E i \in 1 .. Len(rdf) : rdf[i].account_id = n
    THEN rdf[CHOOSE i \in 1 .. Len(rdf) : rdf[i].account_id = n]
    ELSE [account_id |-> n, score |-> 0, risk_level |-> "Low",
          reasons |-> <<"Normal">>]

RECURSIVE Links(_, _)
Links(rows, match_edges) ==
    IF rows = <<>> THEN <<>>
    ELSE LET before == Links(SubSeq(rows, 1, Len(rows) - 1), match_edges)
             row == rows[Len(rows)]
         IN  IF \E j \in 1 .. Len(before) :
                    /\ before[j].source = row.sender_id
                    /\ before[j].target = row.receiver_id
             THEN before
             ELSE Append(before,
                         [source |-> row.sender_id, target |-> row.receiver_id,
                          is_match |-> IF <<row.sender_id, row.receiver_id>>
                                              \in match_edges
                                       THEN 1 ELSE 0])

build_graph_payload(rows, rdf, match_nodes, match_edges) ==
    [nodes |->
        {[id |-> n,
          color |-> CASE risk_lookup(rdf, n).risk_level = "High" -> "#ff4b4b"
                      [] risk_lookup(rdf, n).risk_level = "Medium" -> "#ffa500"
                      [] OTHER -> "#1f77b4",
          large |-> (risk_lookup(rdf, n).score > 0 \/ n \in match_nodes),
          is_match |-> IF n \in match_nodes THEN 1 ELSE 0] :
            n \in {rows[i].sender_id : i \in 1 .. Len(rows)}
                  \cup {rows[i].receiver_id : i \in 1 .. Len(rows)}},
     links |-> Links(rows, match_edges)]

(***************************************************************************)
(* build_structured_output: the fraud rings.  Four loops in a fixed order  *)
(* (cycle components, fan_in aggregators, fan_out dispersers, shell        *)
(* components); each ring action below is one turn of one of these loops,  *)
(* and todo holds what the running loop has not visited yet.               *)
(***************************************************************************)
\* f"RING_{ring_counter:03d}"
RingId(k) == <<"RING", k \div 100, (k \div 10) % 10, k % 10>>

\* round(total / n, 1) in tenths (a tie goes to the even tenth).
RoundTenths(total, n) ==
    LET q == (total * 10) \div n
        r == (total * 10) % n
    IN  IF 2 * r < n THEN q
        ELSE IF 2 * r > n THEN q + 1
        ELSE IF q % 2 = 0 THEN q ELSE q + 1

RECURSIVE SumScores(_, _)
SumScores(members, rdf) ==
    IF members = <<>> THEN 0
    ELSE risk_lookup(rdf, Head(members)).score + SumScores(Tail(members), rdf)

avg_score(members, rdf) ==
    IF members = <<>> THEN 0
    ELSE RoundTenths(SumScores(members, rdf), Len(members))

Ring(k, members, pattern_type, rdf) ==
    [ring_id |-> RingId(k), member_accounts |-> members,
     pattern_type |-> pattern_type, risk_score |-> avg_score(members, rdf)]

\* account_ring_map[m] = ring_id for every member (the cycle loop).
AssignAll(map, members, ring_id) ==
    [a \in DOMAIN map \cup Range(members) |->
        IF a \in Range(members) THEN ring_id ELSE map[a]]

\* A faulty variant: the assignment without its test, so the last ring wins.
AssignLastClaim(map, members, ring_id) ==
    [a \in DOMAIN map \cup Range(members) |->
        IF a \in Range(members) THEN ring_id ELSE map[a]]

\* if m not in account_ring_map: account_ring_map[m] = ring_id
AssignUnclaimed(map, members, ring_id) ==
    [a \in DOMAIN map \cup Range(members) |->
        IF a \in DOMAIN map THEN map[a] ELSE ring_id]

\* G.subgraph(nbunch): the nodes of nbunch that are in G.
SubgraphNodes(g, nbunch) == nbunch \cap Range(g.nodes)

Adjacent(g, a, b) == Contains(g.succ[a], b) \/ Contains(g.succ[b], a)

\* The weakly connected component of the subgraph on S that holds the nodes C.
RECURSIVE Grow(_, _, _)
Grow(g, S, C) ==
    LET more == C \cup {n \in S : \E m \in C : Adjacent(g, m, n)}
    IN  IF more = C THEN C ELSE Grow(g, S, more)

\* weakly_connected_components visits the subgraph's nodes in its iteration
\* order and yields the component of each node not seen yet.  The subgraph
\* view iterates over the set it was given when that set has fewer than half
\* as many nodes as G (an order Python does not fix for strings), and over
\* G's nodes otherwise.
ComponentStarts(g, S, unseen) ==
    IF 2 * Cardinality(S) < Len(g.nodes) THEN unseen
    ELSE {g.nodes[CHOOSE i \in 1 .. Len(g.nodes) :
                     /\ g.nodes[i] \in unseen
                     /\ \A j \in 1 .. i - 1 : g.nodes[j] \notin unseen]}

RingLoops == <<"ring_cycle", "ring_fan_in", "ring_fan_out", "ring_shell">>

LoopItems(k, g, f) ==
    CASE k = 1 -> SubgraphNodes(g, f.cycles)
      [] k = 2 -> f.fan_in
      [] k = 3 -> f.fan_out
      [] k = 4 -> SubgraphNodes(g, f.shells)

\* The loop that runs next, from the k-th on: a loop over nothing is passed.
RECURSIVE Enter(_, _, _)
Enter(k, g, f) ==
    IF k > Len(RingLoops) THEN [pc |-> "accounts", todo |-> {}]
    ELSE IF LoopItems(k, g, f) = {} THEN Enter(k + 1, g, f)
         ELSE [pc |-> RingLoops[k], todo |-> LoopItems(k, g, f)]

\* After a turn of the k-th loop that leaves `left` to visit.
Continue(k, left, g, f) ==
    IF left # {} THEN [pc |-> RingLoops[k], todo |-> left]
    ELSE Enter(k + 1, g, f)

\* The assembler's accumulators.
Assembler ==
    [fraud_rings |-> fraud_rings, ring_counter |-> ring_counter,
     account_ring_map |-> account_ring_map]

NewAssembler ==
    [fraud_rings |-> <<>>, ring_counter |-> 0, account_ring_map |-> NoMap]

\* A faulty variant: the ring is appended without counting it.
AddRingUncounted(st, members, pattern_type, rdf, map) ==
    [fraud_rings |-> Append(st.fraud_rings,
                            Ring(st.ring_counter + 1, members, pattern_type, rdf)),
     ring_counter |-> st.ring_counter,
     account_ring_map |-> map]

\* ring_counter += 1; fraud_rings.append(...); then the members' assignment.
AddRing(st, members, pattern_type, rdf, map) ==
    [fraud_rings |-> Append(st.fraud_rings,
                            Ring(st.ring_counter + 1, members, pattern_type, rdf)),
     ring_counter |-> st.ring_counter + 1,
     account_ring_map |-> map]

\* A faulty variant: a component of one node forms a ring too.
ComponentFormsRingAlways(component) == Cardinality(component) >= 1

\* A faulty variant: a component of three is not enough for a ring.
ComponentFormsRingAbove(component) == Cardinality(component) > 3

ComponentFormsRing(component) == Cardinality(component) >= MinComponent

\* One turn of the loop over the cycle subgraph's components.
CycleTurn(st, component, rdf) ==
    IF ComponentFormsRing(component)
    THEN AddRing(st, Sorted(component), "cycle", rdf,
                 AssignAll(st.account_ring_map, Sorted(component),
                           RingId(st.ring_counter + 1)))
    ELSE st

\* A faulty variant: a cluster of two forms a ring.
PairFormsRing(cluster, node, map) ==
    Cardinality(cluster) >= MinComponent /\ node \notin DOMAIN map

\* len(cluster) >= 3 and agg_node not in account_ring_map
ClusterFormsRing(cluster, node, map) ==
    Cardinality(cluster) >= MinCluster /\ node \notin DOMAIN map

\* A faulty variant: the fan loops written like the cycle loop, with neither
\* the test that the node is unclaimed nor the test on each member.
FanTurnUnguarded(st, node, neighbours, pattern_type, rdf) ==
    LET cluster == {node} \cup neighbours
    IN  IF Cardinality(cluster) >= MinCluster
        THEN AddRing(st, Sorted(cluster), pattern_type, rdf,
                     AssignAll(st.account_ring_map, Sorted(cluster),
                               RingId(st.ring_counter + 1)))
        ELSE st

\* One turn of the fan_in loop (neighbours: the predecessors of agg_node) or
\* of the fan_out loop (neighbours: the successors of disp_node).
FanTurn(st, node, neighbours, pattern_type, rdf) ==
    LET cluster == {node} \cup neighbours
    IN  IF ClusterFormsRing(cluster, node, st.account_ring_map)
        THEN AddRing(st, Sorted(cluster), pattern_type, rdf,
                     AssignUnclaimed(st.account_ring_map, Sorted(cluster),
                                     RingId(st.ring_counter + 1)))
        ELSE st

\* A faulty variant: the shell loop assigning every member of its ring.
ShellTurnReassigns(st, component, rdf) ==
    IF Cardinality(component) >= MinComponent
    THEN AddRing(st, Sorted(component), "shell_layering", rdf,
                 AssignAll(st.account_ring_map, Sorted(component),
                           RingId(st.ring_counter + 1)))
    ELSE st

\* One turn of the loop over the shell subgraph's components.
ShellTurn(st, component, rdf) ==
    IF ComponentFormsRing(component)
    THEN AddRing(st, Sorted(component), "shell_layering", rdf,
                 AssignUnclaimed(st.account_ring_map, Sorted(component),
                                 RingId(st.ring_counter + 1)))
    ELSE st

SetAssembler(st) ==
    /\ fraud_rings' = st.fraud_rings
    /\ ring_counter' = st.ring_counter
    /\ account_ring_map' = st.account_ring_map

BuildGraphPayload ==
    /\ pc = "payload"
    /\ graph_payload' = <<build_graph_payload(df, risk_df, {}, {})>>
    /\ SetAssembler(NewAssembler)
    /\ pc' = Enter(1, G, flags).pc
    /\ todo' = Enter(1, G, flags).todo
    /\ UNCHANGED <<search, exc, db_vars, analyze_vars, risk_df, suspicious_accounts, summary>>

CycleRings ==
    /\ pc = "ring_cycle"
    /\ \E v \in ComponentStarts(G, SubgraphNodes(G, flags.cycles), todo) :
         LET component == Grow(G, SubgraphNodes(G, flags.cycles), {v})
             nx == Continue(1, todo \ component, G, flags)
         IN  /\ SetAssembler(CycleTurn(Assembler, component, risk_df))
             /\ pc' = nx.pc
             /\ todo' = nx.todo
    /\ UNCHANGED <<search, exc, db_vars, analyze_vars, risk_df, graph_payload,
                   suspicious_accounts, summary>>

\* sorted(flags[...]): the smallest id not visited yet.
NextSorted(left) == CHOOSE a \in left : \A b \in left : a <= b

FanInRings ==
    /\ pc = "ring_fan_in"
    /\ LET agg_node == NextSorted(todo)
           nx == Continue(2, todo \ {agg_node}, G, flags)
       IN  /\ SetAssembler(FanTurn(Assembler, agg_node, Range(G.pred[agg_node]),
                                   "fan_in", risk_df))
           /\ pc' = nx.pc
           /\ todo' = nx.todo
    /\ UNCHANGED <<search, exc, db_vars, analyze_vars, risk_df, graph_payload,
                   suspicious_accounts, summary>>

FanOutRings ==
    /\ pc = "ring_fan_out"
    /\ LET disp_node == NextSorted(todo)
           nx == Continue(3, todo \ {disp_node}, G, flags)
       IN  /\ SetAssembler(FanTurn(Assembler, disp_node, Range(G.succ[disp_node]),
                                   "fan_out", risk_df))
           /\ pc' = nx.pc
           /\ todo' = nx.todo
    /\ UNCHANGED <<search, exc, db_vars, analyze_vars, risk_df, graph_payload,
                   suspicious_accounts, summary>>

ShellRings ==
    /\ pc = "ring_shell"
    /\ \E v \in ComponentStarts(G, SubgraphNodes(G, flags.shells), todo) :
         LET component == Grow(G, SubgraphNodes(G, flags.shells), {v})
             nx == Continue(4, todo \ component, G, flags)
         IN  /\ SetAssembler(ShellTurn(Assembler, component, risk_df))
             /\ pc' = nx.pc
             /\ todo' = nx.todo
    /\ UNCHANGED <<search, exc, db_vars, analyze_vars, risk_df, graph_payload,
                   suspicious_accounts, summary>>

(***************************************************************************)
(* build_structured_output: the suspicious accounts (rows of risk_df with  *)
(* a score above 0, sorted by score, highest first; list.sort is stable)   *)
(* and the summary.                                                        *)
(***************************************************************************)
\* Some simple path of n arcs leads from u to `target` in g.subgraph(S)
\* through nodes that are not in `seen`.
RECURSIVE Returns(_, _, _, _, _, _)
Returns(g, S, u, target, seen, n) ==
    IF n = 1 THEN Contains(g.succ[u], target)
    ELSE \E x \in (Range(g.succ[u]) \cap S) \ seen :
             Returns(g, S, x, target, seen \cup {x}, n - 1)

\* A faulty variant: only cycles of one or two nodes are looked for.
short_cycle_lengths(g, S, a) ==
    {n \in 1 .. 2 : Returns(g, S, a, a, {a}, n)}

\* len(cycle) for the cycles of nx.simple_cycles(G.subgraph(S),
\* length_bound=6) that hold a: a self-loop is a cycle of length 1.
simple_cycle_lengths(g, S, a) ==
    {n \in 1 .. length_bound : Returns(g, S, a, a, {a}, n)}

\* The length of the first cycle holding a that the loop over
\* nx.simple_cycles meets, 0 when it meets none: the order of the cycles is
\* networkx's own, so any of the lengths may come first.
FirstCycleLengths(g, S, a) ==
    IF simple_cycle_lengths(g, S, a) = {} THEN {0}
    ELSE simple_cycle_lengths(g, S, a)

\* What the loop meets for each account of S.
RECURSIVE FirstCycles(_, _, _)
FirstCycles(g, S, rest) ==
    IF rest = {} THEN {<<>>}
    ELSE LET a == CHOOSE x \in rest : TRUE
         IN  {[x \in DOMAIN h \cup {a} |-> IF x = a THEN n ELSE h[x]] :
                 h \in FirstCycles(g, S, rest \ {a}),
                 n \in FirstCycleLengths(g, S, a)}

\* f"cycle_length_{len(cycle)}"
CycleLabel(n) ==
    <<"cycle_length_1", "cycle_length_2", "cycle_length_3", "cycle_length_4",
      "cycle_length_5", "cycle_length_6">>[n]

\* A faulty variant: the list is left as it was appended to.
KeepAll(xs) == xs

\* list(dict.fromkeys(patterns)): the first occurrence of each is kept.
RECURSIVE dict_fromkeys(_)
dict_fromkeys(xs) ==
    IF xs = <<>> THEN <<>>
    ELSE LET before == dict_fromkeys(SubSeq(xs, 1, Len(xs) - 1))
         IN  IF Contains(before, xs[Len(xs)]) THEN before
             ELSE Append(before, xs[Len(xs)])

\* The patterns of account a; first is what the loop over the simple cycles
\* met for each cycle-flagged account.
Patterns(a, f, first) ==
    dict_fromkeys(
        (IF a \in f.cycles
         THEN IF first[a] # 0 THEN <<CycleLabel(first[a])>> ELSE <<"cycle">>
         ELSE <<>>)
        \o (IF a \in f.fan_in THEN <<"high_velocity", "fan_in_aggregator">>
            ELSE <<>>)
        \o (IF a \in f.fan_out THEN <<"high_velocity", "fan_out_disperser">>
            ELSE <<>>)
        \o (IF a \in f.shells THEN <<"shell_layer">> ELSE <<>>))

Suspicious(row, map, f, first) ==
    [account_id |-> row.account_id,
     suspicion_score |-> row.score,
     detected_patterns |-> Patterns(row.account_id, f, first),
     ring_id |-> IF row.account_id \in DOMAIN map
                 THEN map[row.account_id] ELSE <<>>]

RECURSIVE InsertByScore(_, _)
InsertByScore(x, sorted) ==
    IF sorted = <<>> THEN <<x>>
    ELSE IF Head(sorted).suspicion_score < x.suspicion_score
         THEN <<x>> \o sorted
         ELSE <<Head(sorted)>> \o InsertByScore(x, Tail(sorted))

\* A faulty variant: the list left in the order of the risk table.
Unsorted(xs) == xs

RECURSIVE SortByScore(_)
SortByScore(xs) ==
    IF xs = <<>> THEN <<>>
    ELSE InsertByScore(xs[Len(xs)], SortByScore(SubSeq(xs, 1, Len(xs) - 1)))

\* A faulty variant: every row of the risk table becomes an entry.
EveryAccountListed(rdf, map, f, first) ==
    SortByScore([i \in 1 .. Len(rdf) |-> Suspicious(rdf[i], map, f, first)])

SuspiciousAccounts(rdf, map, f, first) ==
    LET flagged == SelectSeq(rdf, LAMBDA row : ~(row.score <= 0))
    IN  SortByScore([i \in 1 .. Len(flagged) |->
                        Suspicious(flagged[i], map, f, first)])

Summary(g, accounts, rings) ==
    [total_accounts_analyzed |-> Len(g.nodes),
     suspicious_accounts_flagged |-> Len(accounts),
     fraud_rings_detected |-> Len(rings)]

BuildAccounts ==
    /\ pc = "accounts"
    /\ \E first \in FirstCycles(G, SubgraphNodes(G, flags.cycles), flags.cycles) :
           suspicious_accounts' =
               SuspiciousAccounts(risk_df, account_ring_map, flags, first)
    /\ summary' = <<Summary(G, suspicious_accounts', fraud_rings)>>
    /\ pc' = "persist"
    /\ UNCHANGED <<search, exc, db_vars, analyze_vars, risk_df, graph_payload, fraud_rings,
                   ring_counter, account_ring_map, todo>>

(***************************************************************************)
(* Steps 6 and 7 of run_analysis_pipeline: the stats, then the UPDATE of   *)
(* the analysis row and of the dataset, committed together.                *)
(***************************************************************************)
number_of_edges(g) ==
    Cardinality({p \in Accounts \X Accounts : Contains(g.succ[p[1]], p[2])})

Stats ==
    [total_nodes |-> Len(G.nodes),
     total_edges |-> number_of_edges(G),
     total_transactions |-> Len(df),
     high_risk_count |->
        Cardinality({i \in 1 .. Len(risk_df) : risk_df[i].score >= HighThreshold}),
     medium_risk_count |->
        Cardinality({i \in 1 .. Len(risk_df) :
                        risk_df[i].score > 0 /\ risk_df[i].score < HighThreshold}),
     cycles_detected |-> Cardinality(flags.cycles),
     fan_in_detected |-> Cardinality(flags.fan_in),
     fan_out_detected |-> Cardinality(flags.fan_out),
     shells_detected |-> Cardinality(flags.shells),
     suspicious_accounts |-> suspicious_accounts,
     fraud_rings |-> fraud_rings,
     summary |-> summary[1]]

\* flags_to_json: each set as a list.
flags_to_json(f) ==
    [cycles |-> Sorted(f.cycles), fan_in |-> Sorted(f.fan_in),
     fan_out |-> Sorted(f.fan_out), shells |-> Sorted(f.shells)]

\* A faulty variant: the status is committed without the results.
PersistStatusOnly ==
    /\ pc = "persist"
    /\ analysis' = [analysis EXCEPT !.status = "completed"]
    /\ dataset_status' = "completed"
    /\ pc' = "done"
    /\ UNCHANGED <<search, exc, ledger, analysis_results, analyze_vars, output_vars>>

Persist ==
    /\ pc = "persist"
    /\ analysis' = [analysis EXCEPT !.status = "completed",
                                    !.graph_json = graph_payload,
                                    !.risk_json = <<risk_df>>,
                                    !.flags_json = <<flags_to_json(flags)>>,
                                    !.stats_json = <<Stats>>,
                                    !.completed_at = <<"now">>]
    /\ dataset_status' = "completed"
    /\ pc' = "done"
    /\ UNCHANGED <<search, exc, ledger, analysis_results, analyze_vars, output_vars>>

(***************************************************************************)
(* start_analysis on a dataset whose analysis has completed: a new pending *)
(* analysis row and a new run of the pipeline; the completed row stays in  *)
(* the table.                                                              *)
(***************************************************************************)
StartAgain ==
    /\ pc \in {"done", "raised"}
    /\ Len(analysis_results) < MaxRuns - 1
    /\ analysis_results' = Append(analysis_results, analysis)
    /\ analysis' = PendingAnalysis
    /\ dataset_status' = "analyzing"
    /\ pc' = "queued"
    /\ df' = <<>>
    /\ G' = EmptyGraph
    /\ flags' = EmptyFlags
    /\ start_idx' = 0
    /\ stack' = <<>>
    /\ found_cycle' = FALSE
    /\ suspect_cycle_nodes' = {}
    /\ risk_df' = <<>>
    /\ graph_payload' = <<>>
    /\ fraud_rings' = <<>>
    /\ ring_counter' = 0
    /\ account_ring_map' = NoMap
    /\ todo' = <<>>
    /\ suspicious_accounts' = <<>>
    /\ summary' = <<>>
    /\ exc' = <<>>
    /\ search' = <<>>
    /\ UNCHANGED ledger

Next ==
    \/ MarkRunning
    \/ LoadTransactions
    \/ HandleException
    \/ Smurfing
    \/ BuildGraph
    \/ CycleNextStart
    \/ CyclePop
    \/ CycleFinish
    \/ Shells
    \/ AssignRiskScores
    \/ BuildGraphPayload
    \/ CycleRings
    \/ FanInRings
    \/ FanOutRings
    \/ ShellRings
    \/ BuildAccounts
    \/ Persist

Spec == Init /\ [][Next]_vars

(***************************************************************************)
(* analyze_networks and assign_risk_scores on inputs of their own.         *)
(***************************************************************************)
\* The subsets of P of at most k elements.
RECURSIVE SubsetsUpTo(_, _)
SubsetsUpTo(P, k) ==
    IF k = 0 THEN {{}}
    ELSE LET prev == SubsetsUpTo(P, k - 1)
         IN  prev \cup UNION {{T \cup {p} : p \in P} : T \in prev}

\* The pipeline has loaded the ledger and is about to call analyze_networks.
Loaded ==
    /\ dataset_status = "analyzing"
    /\ analysis = [PendingAnalysis EXCEPT !.status = "running"]
    /\ analysis_results = <<>>
    /\ pc = "smurfing"
    /\ df = _load_transactions_df(ledger)
    /\ G = EmptyGraph
    /\ flags = EmptyFlags
    /\ Fresh

\* The graphs of the cycle search: at most MaxArcs transfers and
\* self-transfers among four accounts, and the directed rings of 5 and of 6
\* accounts with at most MaxChords further transfers.  One transaction per
\* arc, the ledger in ascending or in descending (sender, receiver) order.
SmallArcs == LedgerAccounts \X LedgerAccounts

RingLengths == 5 .. 6

RingArcs(n) == {<<i, (i % n) + 1>> : i \in 1 .. n}

RingAccounts == 1 .. 6

Chords(n) == {p \in RingAccounts \X RingAccounts : p[1] # p[2]} \ RingArcs(n)

CycleArcSets ==
    (SubsetsUpTo(SmallArcs, MaxArcs) \ {{}})
    \cup UNION {{RingArcs(n) \cup C : C \in SubsetsUpTo(Chords(n), MaxChords)} :
                   n \in RingLengths}

InitCycle ==
    /\ \E S \in CycleArcSets : \E pattern \in {"reverse", "spread"} :
           ledger = ExpandFrom(PairSeq(S), {}, pattern, 1)
    /\ Loaded

NextCycle ==
    \/ Smurfing
    \/ BuildGraph
    \/ CycleNextStart
    \/ CyclePop
    \/ CycleFinish

SpecCycle == InitCycle /\ [][NextCycle]_vars

\* The ledgers of the smurfing rule: account 1 receives ("in") or sends
\* ("out") between 9 and MaxRows transactions, its counterparties being
\* accounts 2 and 3 in turn; each timestamp is missing or one of 0, 72 and 73
\* hours.  The rows without a timestamp come first, the others latest first.
StampValues == <<NULL, td_72 + 1, td_72, 0>>

Repeat(x, n) == [i \in 1 .. n |-> x]

RECURSIVE Stamps(_, _)
Stamps(count, k) ==
    IF k > Len(StampValues) THEN <<>>
    ELSE Repeat(StampValues[k], count[k]) \o Stamps(count, k + 1)

StampCounts ==
    {count \in [1 .. Len(StampValues) -> 0 .. MaxRows] :
        /\ count[1] + count[2] + count[3] + count[4] >= MinGroupRows - 1
        /\ count[1] + count[2] + count[3] + count[4] <= MaxRows}

SmurfLedger(ts, mode) ==
    [i \in 1 .. Len(ts) |->
        IF mode = "in"
        THEN [sender_id |-> 2 + (i % 2), receiver_id |-> 1, timestamp |-> ts[i]]
        ELSE [sender_id |-> 1, receiver_id |-> 2 + (i % 2), timestamp |-> ts[i]]]

InitSmurf ==
    /\ \E count \in StampCounts : \E mode \in {"in", "out"} :
           ledger = SmurfLedger(Stamps(count, 1), mode)
    /\ Loaded

NextSmurf == Smurfing

SpecSmurf == InitSmurf /\ [][NextSmurf]_vars

\* assign_risk_scores(all_nodes, flags) for any list of distinct nodes and any
\* four sets of accounts.
ScoreNodes == 1 .. MaxScoreNodes

InitScore ==
    /\ ledger = <<>>
    /\ dataset_status = "analyzing"
    /\ analysis = [PendingAnalysis EXCEPT !.status = "running"]
    /\ analysis_results = <<>>
    /\ pc = "score"
    /\ df = <<>>
    /\ \E N \in SUBSET ScoreNodes : G = [EmptyGraph EXCEPT !.nodes = Sorted(N)]
    /\ flags \in [{"cycles", "fan_in", "fan_out", "shells"} -> SUBSET ScoreNodes]
    /\ Fresh

NextScore == AssignRiskScores

SpecScore == InitScore /\ [][NextScore]_vars

\* The ledgers of the ring assembly: the triangle 1 -> 2 -> 3 -> 1 and at most
\* MaxExtra further transfers among five accounts, of which at most MaxBulk
\* carry BulkRows transactions; timestamps of the "reverse" pattern.
Triangle == {<<1, 2>>, <<2, 3>>, <<3, 1>>}

ExtraPairs == {p \in (1 .. 5) \X (1 .. 5) : p[1] # p[2]} \ Triangle

RingLedgers ==
    UNION {{ExpandFrom(PairSeq(Triangle \cup X), bulk, "reverse", 1) :
               bulk \in BulkSets(X)} : X \in SubsetsUpTo(ExtraPairs, MaxExtra)}

InitRings ==
    /\ ledger \in RingLedgers
    /\ dataset_status = "analyzing"
    /\ analysis = PendingAnalysis
    /\ analysis_results = <<>>
    /\ Locals

NextRings ==
    \/ MarkRunning
    \/ LoadTransactions
    \/ Smurfing
    \/ BuildGraph
    \/ CycleNextStart
    \/ CyclePop
    \/ CycleFinish
    \/ Shells
    \/ AssignRiskScores
    \/ BuildGraphPayload
    \/ CycleRings
    \/ FanInRings
    \/ FanOutRings
    \/ ShellRings
    \/ BuildAccounts
    \/ Persist

SpecRings == InitRings /\ [][NextRings]_vars

\* The ledgers of the iteration orders: one transaction per transfer, all at
\* one time, stored in any row order (ORDER BY timestamp then returns them in
\* that order, and G's nodes and successors are inserted as the rows come).
\* The transfers are at most MaxOrderArcs among four accounts or among the
\* first three with self-transfers, or one of five shapes: a chain of five
\* accounts, a ring of four, two triangles on a common transfer, a ring of
\* four with a transfer back, and a ring of five.
OrderShapes ==
    {RingArcs(5) \ {<<5, 1>>},
     RingArcs(4),
     Triangle \cup {<<2, 4>>, <<4, 1>>},
     RingArcs(4) \cup {<<2, 1>>},
     RingArcs(5)}

OrderArcSets ==
    (SubsetsUpTo(Pairs, MaxOrderArcs) \ {{}})
    \cup (SubsetsUpTo(LoopPairs, MaxOrderArcs) \ {{}})
    \cup OrderShapes

RowsAtOnce(o) ==
    [i \in DOMAIN o |->
        [sender_id |-> o[i][1], receiver_id |-> o[i][2], timestamp |-> 0]]

InitOrder ==
    /\ \E S \in OrderArcSets : \E o \in Orderings(S) : ledger = RowsAtOnce(o)
    /\ Loaded

NextOrder ==
    \/ Smurfing
    \/ BuildGraph
    \/ CycleNextStart
    \/ CyclePop
    \/ CycleFinish
    \/ Shells

SpecOrder == InitOrder /\ [][NextOrder]_vars

\* The cycle search as it runs: the loops of analyze_networks are plain
\* sequential code of one task, so a turn of the search that can be taken
\* is taken.
CycleSearch == CycleNextStart \/ CyclePop \/ CycleFinish

SpecCycleFair == InitCycle /\ [][NextCycle]_vars /\ WF_vars(CycleSearch)

\* The ledgers analysed more than once: those of the ring assembly, and two
\* pairs of accounts with two transfers each (1 to 2 and 3 to 4) next to
\* account 5 sending once to each of 0 to 4 further accounts.
StarSizes == 0 .. 4

TransferAtOnce(a, b) == [sender_id |-> a, receiver_id |-> b, timestamp |-> 0]

PairsAndStar(k) ==
    <<TransferAtOnce(1, 2), TransferAtOnce(1, 2),
      TransferAtOnce(3, 4), TransferAtOnce(3, 4)>>
    \o [i \in 1 .. k |-> TransferAtOnce(5, 5 + i)]

InitTwice ==
    /\ ledger \in RingLedgers \cup {PairsAndStar(k) : k \in StarSizes}
    /\ dataset_status = "analyzing"
    /\ analysis = PendingAnalysis
    /\ analysis_results = <<>>
    /\ Locals

NextTwice ==
    \/ MarkRunning
    \/ LoadTransactions
    \/ Smurfing
    \/ BuildGraph
    \/ CycleNextStart
    \/ CyclePop
    \/ CycleFinish
    \/ Shells
    \/ AssignRiskScores
    \/ BuildGraphPayload
    \/ CycleRings
    \/ FanInRings
    \/ FanOutRings
    \/ ShellRings
    \/ BuildAccounts
    \/ Persist
    \/ StartAgain

SpecTwice == InitTwice /\ [][NextTwice]_vars

(***************************************************************************)
(* find_structural_clones(G, target_node, hops).  The sets it returns as   *)
(* lists are kept as sets; examined holds the nodes whose ego-network the  *)
(* loop extracted, raised whether the call ended in an exception.          *)
(***************************************************************************)
has_node(g, n) == Contains(g.nodes, n)

in_degree(g, n) == Len(g.pred[n])

out_degree(g, n) == Len(g.succ[n])

\* The nodes within `radius` steps of those of S, edges taken in either
\* direction.
RECURSIVE WithinRadius(_, _, _)
WithinRadius(g, S, radius) ==
    IF radius = 0 THEN S
    ELSE WithinRadius(g,
             S \cup {m \in Range(g.nodes) : \E x \in S : Adjacent(g, x, m)},
             radius - 1)

\* nx.ego_graph(G, n, radius, undirected=True): the subgraph of G induced by
\* the nodes within the radius.
ego_graph(g, n, radius) ==
    LET near == WithinRadius(g, {n}, radius)
    IN  [nodes |-> near,
         edges |-> {e \in near \X near : Contains(g.succ[e[1]], e[2])}]

\* nx.is_isomorphic on two DiGraphs: a one-to-one map of the nodes of one
\* onto the nodes of the other that carries the edges onto the edges.
is_isomorphic(h1, h2) ==
    /\ Cardinality(h1.nodes) = Cardinality(h2.nodes)
    /\ Cardinality(h1.edges) = Cardinality(h2.edges)
    /\ \E f \in [h1.nodes -> h2.nodes] :
          /\ \A a, b \in h1.nodes : f[a] = f[b] => a = b
          /\ \A e \in h1.edges : <<f[e[1]], f[e[2]]>> \in h2.edges

NoMatches == [match_nodes |-> {}, match_edges |-> {}, examined |-> {}]

\* A faulty variant: the loop leaves at its first match.
RECURSIVE HuntFirst(_, _, _, _, _)
HuntFirst(g, target_node, hops, k, found) ==
    IF k > Len(g.nodes) THEN found
    ELSE LET n == g.nodes[k]
             ref_subgraph == ego_graph(g, target_node, hops)
             cand_subgraph == ego_graph(g, n, hops)
         IN  IF /\ in_degree(g, n) = in_degree(g, target_node)
                /\ out_degree(g, n) = out_degree(g, target_node)
             THEN IF /\ Cardinality(cand_subgraph.nodes)
                           = Cardinality(ref_subgraph.nodes)
                     /\ is_isomorphic(ref_subgraph, cand_subgraph)
                  THEN [match_nodes |-> found.match_nodes \cup cand_subgraph.nodes,
                        match_edges |-> found.match_edges \cup cand_subgraph.edges,
                        examined |-> found.examined \cup {n}]
                  ELSE HuntFirst(g, target_node, hops, k + 1,
                           [found EXCEPT !.examined = @ \cup {n}])
             ELSE HuntFirst(g, target_node, hops, k + 1, found)

\* A faulty variant: the loop passes over the target node itself.
RECURSIVE HuntOthers(_, _, _, _, _)
HuntOthers(g, target_node, hops, k, found) ==
    IF k > Len(g.nodes) THEN found
    ELSE LET n == g.nodes[k]
             ref_subgraph == ego_graph(g, target_node, hops)
             cand_subgraph == ego_graph(g, n, hops)
         IN  IF /\ n # target_node
                /\ in_degree(g, n) = in_degree(g, target_node)
                /\ out_degree(g, n) = out_degree(g, target_node)
             THEN IF /\ Cardinality(cand_subgraph.nodes)
                           = Cardinality(ref_subgraph.nodes)
                     /\ is_isomorphic(ref_subgraph, cand_subgraph)
                  THEN HuntOthers(g, target_node, hops, k + 1,
                           [match_nodes |-> found.match_nodes \cup cand_subgraph.nodes,
                            match_edges |-> found.match_edges \cup cand_subgraph.edges,
                            examined |-> found.examined \cup {n}])
                  ELSE HuntOthers(g, target_node, hops, k + 1,
                           [found EXCEPT !.examined = @ \cup {n}])
             ELSE HuntOthers(g, target_node, hops, k + 1, found)

\* for n in G.nodes(), from the k-th node on.
RECURSIVE Hunt(_, _, _, _, _)
Hunt(g, target_node, hops, k, found) ==
    IF k > Len(g.nodes) THEN found
    ELSE LET n == g.nodes[k]
             ref_subgraph == ego_graph(g, target_node, hops)
             cand_subgraph == ego_graph(g, n, hops)
         IN  IF /\ in_degree(g, n) = in_degree(g, target_node)
                /\ out_degree(g, n) = out_degree(g, target_node)
             THEN IF /\ Cardinality(cand_subgraph.nodes)
                           = Cardinality(ref_subgraph.nodes)
                     /\ is_isomorphic(ref_subgraph, cand_subgraph)
                  THEN Hunt(g, target_node, hops, k + 1,
                           [match_nodes |-> found.match_nodes \cup cand_subgraph.nodes,
                            match_edges |-> found.match_edges \cup cand_subgraph.edges,
                            examined |-> found.examined \cup {n}])
                  ELSE Hunt(g, target_node, hops, k + 1,
                           [found EXCEPT !.examined = @ \cup {n}])
             ELSE Hunt(g, target_node, hops, k + 1, found)

\* A faulty variant: no test that the target is in G, so that nx.ego_graph
\* raises for a target that is not.
find_clones_unguarded(g, target_node, hops) ==
    LET found == IF ~has_node(g, target_node) THEN NoMatches
                 ELSE Hunt(g, target_node, hops, 1, NoMatches)
    IN  [match_nodes |-> found.match_nodes, match_edges |-> found.match_edges,
         examined |-> found.examined, raised |-> ~has_node(g, target_node)]

find_structural_clones(g, target_node, hops) ==
    LET found == IF ~has_node(g, target_node) THEN NoMatches
                 ELSE Hunt(g, target_node, hops, 1, NoMatches)
    IN  [match_nodes |-> found.match_nodes, match_edges |-> found.match_edges,
         examined |-> found.examined, raised |-> FALSE]

\* One call, on the graph rebuilt from the loaded rows.
FindClones ==
    /\ pc = "find_clones"
    /\ \E target_node \in Accounts : \E hops \in 1 .. MaxHops :
           search' = <<[target_node |-> target_node, hops |-> hops,
                        result |-> find_structural_clones(G, target_node, hops)]>>
    /\ pc' = "found"
    /\ UNCHANGED <<exc, db_vars, analyze_vars, output_vars>>

\* The graphs searched: at most MaxSideArcs transfers among accounts 1 to 3,
\* at most MaxSideArcs among accounts 4 to 6, and account 7 sending to
\* account 4 or not; one transaction per transfer.  Accounts 8 and 9 are in
\* no graph.
SidePairs(S) == {p \in S \X S : p[1] # p[2]}

SearchArcSets ==
    {A \cup B \cup L :
        A \in SubsetsUpTo(SidePairs(1 .. 3), MaxSideArcs),
        B \in SubsetsUpTo(SidePairs(4 .. 6), MaxSideArcs),
        L \in {{}, {<<7, 4>>}}} \ {{}}

InitIso ==
    /\ \E S \in SearchArcSets : ledger = ExpandFrom(PairSeq(S), {}, "reverse", 1)
    /\ dataset_status = "completed"
    /\ analysis = [PendingAnalysis EXCEPT !.status = "completed"]
    /\ analysis_results = <<>>
    /\ pc = "find_clones"
    /\ df = _load_transactions_df(ledger)
    /\ G = from_pandas_edgelist(df)
    /\ flags = EmptyFlags
    /\ Fresh

NextIso == FindClones

SpecIso == InitIso /\ [][NextIso]_vars

(***************************************************************************)
(* The tasks of one dataset side by side: run_analysis_pipeline with a      *)
(* statement of its try block raising, start_analysis called again once a  *)
(* run is over, and run_isomorphism_search on the completed analysis.       *)
(***************************************************************************)
\* Where the pipeline is between the commit of status running and the
\* commit of the results.
TrySteps ==
    {"load", "smurfing", "build_graph", "cycles", "dfs", "shells", "score",
     "payload", "ring_cycle", "ring_fan_in", "ring_fan_out", "ring_shell",
     "accounts", "persist"}

\* str(exc) of an exception: the empty string for one raised without
\* arguments (MemoryError(), a bare assert), some text otherwise.
Messages == {"", "error"}

\* A statement of the try block raises after status running was committed:
\* nothing of the step is committed and the except clause is entered.
StepRaises ==
    /\ pc \in TrySteps
    /\ \E msg \in Messages : exc' = <<msg>>
    /\ pc' = "except"
    /\ UNCHANGED <<search, db_vars, analyze_vars, output_vars>>

\* A faulty variant: the UPDATE stamps the row as well.
SearchUpdateStamped(row, payload) ==
    [row EXCEPT !.graph_json = <<payload>>, !.completed_at = <<"later">>]

\* UPDATE analysis_results SET graph_json = :graph WHERE id = :aid
SearchUpdate(row, payload) == [row EXCEPT !.graph_json = <<payload>>]

\* The targets asked for: an account of the first group, one of the second,
\* and one that is in no ledger.
SearchTargets == {1, 4, 9}

\* run_isomorphism_search, which start_isomorphism calls for a completed
\* analysis only: the rows are loaded, the graph is rebuilt, the clones are
\* found, risk_json is read, the payload is built with the matches and
\* written, and the UPDATE is committed; when a statement raises, the
\* session is rolled back and nothing is committed.
RunIsomorphismSearch ==
    /\ pc = "done"
    /\ analysis.status = "completed"
    /\ Len(search) < MaxSearches
    /\ \E target_node \in SearchTargets : \E hops \in 1 .. MaxHops :
       \E raises \in BOOLEAN :
       \E rows \in {_load_transactions_df(ledger)} :
       \E g \in {from_pandas_edgelist(rows)} :
           LET found == find_structural_clones(g, target_node, hops)
               risk_records == analysis.risk_json[1]
               payload == build_graph_payload(rows, risk_records,
                                              found.match_nodes, found.match_edges)
           IN  /\ analysis' = IF raises THEN analysis
                               ELSE SearchUpdate(analysis, payload)
               /\ search' = Append(search,
                      [target_node |-> target_node, hops |-> hops,
                       committed |-> ~raises,
                       match_nodes |-> IF raises THEN {} ELSE found.match_nodes,
                       match_edges |-> IF raises THEN {} ELSE found.match_edges])
    /\ UNCHANGED <<exc, ledger, dataset_status, analysis_results, pc, analyze_vars,
                   output_vars>>

\* Two stars of two transfers each.
StarPairs == {<<1, 2>>, <<1, 3>>, <<4, 5>>, <<4, 6>>}

\* The datasets of the tasks: the one without a row; the shapes of the
\* iteration orders and the two stars, one transaction per transfer; and the
\* triangle with BulkRows transactions from account 4 to account 1.
TaskLedgers ==
    {<<>>}
    \cup {ExpandFrom(PairSeq(S), {}, "reverse", 1) :
             S \in OrderShapes \cup {StarPairs}}
    \cup {ExpandFrom(PairSeq(Triangle \cup {<<4, 1>>}), {<<4, 1>>}, "reverse", 1)}

InitTasks ==
    /\ ledger \in TaskLedgers
    /\ dataset_status = "analyzing"
    /\ analysis = PendingAnalysis
    /\ analysis_results = <<>>
    /\ Locals

NextTasks ==
    \/ MarkRunning
    \/ LoadTransactions
    \/ StepRaises
    \/ HandleException
    \/ Smurfing
    \/ BuildGraph
    \/ CycleNextStart
    \/ CyclePop
    \/ CycleFinish
    \/ Shells
    \/ AssignRiskScores
    \/ BuildGraphPayload
    \/ CycleRings
    \/ FanInRings
    \/ FanOutRings
    \/ ShellRings
    \/ BuildAccounts
    \/ Persist
    \/ StartAgain
    \/ RunIsomorphismSearch

SpecTasks == InitTasks /\ [][NextTasks]_vars

(***************************************************************************)
(* The claims.                                                             *)
(***************************************************************************)
Assembling == pc \in {"ring_cycle", "ring_fan_in", "ring_fan_out", "ring_shell"}

\* build_structured_output has returned.
OutputBuilt == pc \in {"persist", "done"}

HasRingOfType(id, t) ==
    \E j \in 1 .. Len(fraud_rings) :
        fraud_rings[j].ring_id = id /\ fraud_rings[j].pattern_type = t

\* The rings (positions in fraud_rings) whose member list holds account a.
RingsListing(a) ==
    {j \in 1 .. Len(fraud_rings) : a \in Range(fraud_rings[j].member_accounts)}

\* C1: an account flagged both cycle and fan_in has, in the assembler's map
\* and in its suspicious_accounts entry, the id of a ring of type cycle or no
\* ring; never the id of a ring of type fan_in.
C1_RingPrecedence ==
    /\ \A a \in DOMAIN account_ring_map \cap flags.cycles \cap flags.fan_in :
          /\ HasRingOfType(account_ring_map[a], "cycle")
          /\ ~HasRingOfType(account_ring_map[a], "fan_in")
    /\ OutputBuilt =>
          \A i \in 1 .. Len(suspicious_accounts) :
             LET s == suspicious_accounts[i]
             IN  s.account_id \in flags.cycles \cap flags.fan_in =>
                    /\ s.ring_id = <<>> \/ HasRingOfType(s.ring_id, "cycle")
                    /\ ~HasRingOfType(s.ring_id, "fan_in")

\* A cycle member that is also a fan_in aggregator with a cluster of three:
\* only its prior claim keeps the fan_in loop from forming a ring around it.
C1_Witness ==
    /\ pc = "done"
    /\ \E i \in 1 .. Len(suspicious_accounts) :
          LET s == suspicious_accounts[i]
          IN  /\ s.account_id \in flags.cycles \cap flags.fan_in
              /\ s.ring_id # <<>>
              /\ Cardinality({s.account_id} \cup Range(G.pred[s.account_id]))
                    >= MinCluster

\* C2 as claimed: no account is in the member list of more than one ring.
C2_DisjointMemberLists ==
    OutputBuilt => \A a \in Accounts : Cardinality(RingsListing(a)) <= 1

\* C2 amended: every account has at most one ring assignment, which is the
\* id of the first ring (in creation order) whose member list holds it; an
\* account in no member list has no assignment.  Ring ids are distinct.
C2_FirstClaimWins ==
    /\ \A a \in Accounts :
          IF RingsListing(a) = {} THEN a \notin DOMAIN account_ring_map
          ELSE /\ a \in DOMAIN account_ring_map
               /\ account_ring_map[a] =
                     fraud_rings[CHOOSE j \in RingsListing(a) :
                                    \A k \in RingsListing(a) : j <= k].ring_id
    /\ \A j, k \in 1 .. Len(fraud_rings) :
          fraud_rings[j].ring_id = fraud_rings[k].ring_id => j = k
    /\ OutputBuilt =>
          \A i \in 1 .. Len(suspicious_accounts) :
             LET s == suspicious_accounts[i]
             IN  s.ring_id = (IF s.account_id \in DOMAIN account_ring_map
                              THEN account_ring_map[s.account_id] ELSE <<>>)

\* An account listed by two rings.
C2_Witness ==
    pc = "done" /\ \E a \in Accounts : Cardinality(RingsListing(a)) >= 2

\* C3: a step never changes or removes a ring assignment that exists.
C3_AssignedOnce ==
    [][\A a \in DOMAIN account_ring_map :
          /\ a \in DOMAIN account_ring_map'
          /\ account_ring_map'[a] = account_ring_map[a]]_vars

\* A later loop is about to visit an account that an earlier ring claimed.
C3_Witness ==
    /\ pc \in {"ring_fan_in", "ring_fan_out", "ring_shell"}
    /\ \E a \in todo : a \in DOMAIN account_ring_map

\* C4: every fraud ring has at least 2 member accounts.
C4_RingSize ==
    \A j \in 1 .. Len(fraud_rings) :
        /\ Len(fraud_rings[j].member_accounts) >= 2
        /\ Cardinality(Range(fraud_rings[j].member_accounts)) >= 2

\* Rings were assembled from flags with a component of a single node, which
\* forms no ring, and one of exactly two nodes, which does.
C4_Witness ==
    /\ pc = "done"
    /\ \E j \in 1 .. Len(fraud_rings) : Len(fraud_rings[j].member_accounts) = 2
    /\ \E a \in flags.shells : Grow(G, SubgraphNodes(G, flags.shells), {a}) = {a}

\* There is a transaction from u to v.
Arc(u, v) ==
    \E i \in 1 .. Len(df) : df[i].sender_id = u /\ df[i].receiver_id = v

\* Some path of n further arcs leads from `last` back to v through accounts
\* of W that are not in `used`, its last arc closing on v.
RECURSIVE Closes(_, _, _, _, _)
Closes(v, last, used, n, W) ==
    IF n = 0 THEN Arc(last, v)
    ELSE \E x \in W \ used : Arc(last, x) /\ Closes(v, x, used \cup {x}, n - 1, W)

\* v lies on a directed simple cycle of exactly n accounts, all of them in W.
OnCycle(v, n, W) == v \in W /\ Closes(v, v, {v}, n - 1, W)

CycleSearchDone == pc \notin {"smurfing", "build_graph", "cycles", "dfs"}

\* C5: once the cycle search is over, every account on a directed simple
\* cycle of length 3, 4 or 5 is in flags.cycles.
C5_CycleComplete ==
    CycleSearchDone =>
        \A v \in Accounts :
            (\E n \in 3 .. 5 : OnCycle(v, n, Accounts)) => v \in flags.cycles

\* An account whose only cycle of length 3 to 5 has length 5 is flagged, in a
\* graph where the search had flagged the accounts of a 3-cycle before it
\* started from that account.
C5_Witness ==
    /\ pc = "shells"
    /\ \E v, w \in flags.cycles :
          /\ OnCycle(v, 5, Accounts)
          /\ ~OnCycle(v, 3, Accounts) /\ ~OnCycle(v, 4, Accounts)
          /\ OnCycle(w, 3, Accounts)
          /\ \E i, j \in 1 .. Len(G.nodes) :
                i < j /\ G.nodes[i] = w /\ G.nodes[j] = v

\* C6: at every point of the search and after it, every flagged account lies
\* on a directed simple cycle of length 3 to 5 made of flagged accounts only;
\* so an account on no such cycle (one on self-loops, 2-cycles or cycles of 6
\* or more only) is not flagged.
C6_CycleSound ==
    /\ \A v \in suspect_cycle_nodes :
          \E n \in 3 .. 5 : OnCycle(v, n, suspect_cycle_nodes)
    /\ \A v \in flags.cycles :
          \E n \in 3 .. 5 : OnCycle(v, n, flags.cycles)

\* The search is over; it flagged some account and left unflagged an account
\* on a cycle of 6 that is on a 2-cycle as well.
C6_Witness ==
    /\ pc = "shells"
    /\ flags.cycles # {}
    /\ \E v \in Accounts \ flags.cycles :
          OnCycle(v, 6, Accounts) /\ OnCycle(v, 2, Accounts)

\* The rows of account a in column key, and those with a timestamp.
RowsOf(key, a) == {i \in 1 .. Len(df) : df[i][key] = a}

Stamped(key, a) == {i \in RowsOf(key, a) : df[i].timestamp # NaT}

\* The k-th smallest timestamp of account a's rows.
Kth(key, a, k) ==
    CHOOSE t \in {df[i].timestamp : i \in Stamped(key, a)} :
        /\ Cardinality({i \in Stamped(key, a) : df[i].timestamp <= t}) >= k
        /\ Cardinality({i \in Stamped(key, a) : df[i].timestamp < t}) < k

\* At least 10 rows, and two rows nine places apart in ascending order (rows
\* without a timestamp last) that both have a timestamp, at most 72 hours
\* apart.
SmurfRule(key, a) ==
    /\ Cardinality(RowsOf(key, a)) >= 10
    /\ \E i \in 10 .. Cardinality(Stamped(key, a)) :
          Kth(key, a, i) - Kth(key, a, i - 9) <= 72

\* C7: after the smurfing step an account is flagged fan_in exactly if its
\* incoming transactions meet the rule, and fan_out exactly if its outgoing
\* transactions do.
C7_Smurfing ==
    pc # "smurfing" =>
        \A a \in Accounts :
            /\ a \in flags.fan_in <=> SmurfRule("receiver_id", a)
            /\ a \in flags.fan_out <=> SmurfRule("sender_id", a)

\* An account with exactly 10 incoming rows, the first and the last exactly
\* 72 hours apart, is flagged.
C7_Witness ==
    /\ pc = "build_graph"
    /\ \E a \in flags.fan_in :
          /\ Cardinality(RowsOf("receiver_id", a)) = 10
          /\ Cardinality(Stamped("receiver_id", a)) = 10
          /\ Kth("receiver_id", a, 10) - Kth("receiver_id", a, 1) = 72

\* C8: every row of the risk table has a score from 0 to 100 and the level
\* its score stands for.
C8_ScoreAndLevel ==
    \A i \in 1 .. Len(risk_df) :
        LET row == risk_df[i]
        IN  /\ row.score \in 0 .. 100
            /\ row.risk_level \in {"High", "Medium", "Low"}
            /\ row.risk_level = "High" <=> row.score >= 40
            /\ row.risk_level = "Medium" <=> (0 < row.score /\ row.score < 40)
            /\ row.risk_level = "Low" <=> row.score = 0

\* A table with a row whose score was capped at 100 and a row of score 40,
\* the lowest High.
C8_Witness ==
    /\ pc = "payload"
    /\ \E i, j \in 1 .. Len(risk_df) :
          /\ risk_df[i].score = 100
          /\ risk_df[i].account_id \in flags.cycles \cap flags.fan_in \cap flags.fan_out
          /\ risk_df[j].score = 40
          /\ risk_df[j].risk_level = "High"

Indicator(a, S) == IF a \in S THEN 1 ELSE 0

\* C9: the risk table has exactly one row per graph node, with the score
\* min(100, 40*[cycle] + 35*[fan_in] + 35*[fan_out] + 25*[shell]).
C9_ScoreFormula ==
    pc \notin {"queued", "load", "except", "raised", "smurfing", "build_graph",
               "cycles", "dfs", "shells", "score"} =>
        /\ Len(risk_df) = Len(G.nodes)
        /\ \A n \in Range(G.nodes) :
              /\ Cardinality({i \in 1 .. Len(risk_df) :
                                 risk_df[i].account_id = n}) = 1
              /\ \A i \in 1 .. Len(risk_df) :
                    risk_df[i].account_id = n =>
                       risk_df[i].score =
                          Min(100, 40 * Indicator(n, flags.cycles)
                                   + 35 * Indicator(n, flags.fan_in)
                                   + 35 * Indicator(n, flags.fan_out)
                                   + 25 * Indicator(n, flags.shells))
        /\ \A i \in 1 .. Len(risk_df) : risk_df[i].account_id \in Range(G.nodes)

\* A table with a node in all four flag sets and a node in none, which scores
\* 0, while an account that is no node is flagged.
C9_Witness ==
    /\ pc = "payload"
    /\ \E i, j \in 1 .. Len(risk_df) :
          /\ risk_df[i].account_id \in
                flags.cycles \cap flags.fan_in \cap flags.fan_out \cap flags.shells
          /\ risk_df[j].account_id \notin
                flags.cycles \cup flags.fan_in \cup flags.fan_out \cup flags.shells
          /\ risk_df[j].score = 0

\* The run is over: the task returned or raised.
RunOver == pc \in {"done", "raised"}

\* C10 as claimed: the run on a dataset without transactions completes, with
\* empty flag sets, an empty risk table, no rings, no suspicious accounts and
\* a summary of zeros.
C10_EmptyLedgerCompletes ==
    (RunOver /\ ledger = <<>>) =>
        /\ analysis.status = "completed"
        /\ analysis.error_message = <<>>
        /\ analysis.flags_json = <<flags_to_json(EmptyFlags)>>
        /\ analysis.risk_json = <<<<>>>>
        /\ fraud_rings = <<>>
        /\ suspicious_accounts = <<>>
        /\ summary = <<[total_accounts_analyzed |-> 0,
                        suspicious_accounts_flagged |-> 0,
                        fraud_rings_detected |-> 0]>>

GraphBuilt == pc \notin {"queued", "load", "except", "raised", "smurfing",
                         "build_graph"}

\* The rows of the transactions table from a to b.
Transfers(a, b) ==
    {i \in 1 .. Len(ledger) :
        ledger[i].sender_id = a /\ ledger[i].receiver_id = b}

NoRepeat(s) == \A i, j \in 1 .. Len(s) : s[i] = s[j] => i = j

\* C14: once the graph is built its nodes are exactly the accounts that send
\* or receive in some transaction, each once; b is a successor of a (and a a
\* predecessor of b) exactly if some transaction goes from a to b, with or
\* without a timestamp, and is so once however many transactions there are.
C14_GraphBuilder ==
    GraphBuilt =>
        LET sent == {<<ledger[i].sender_id, ledger[i].receiver_id>> :
                        i \in 1 .. Len(ledger)}
        IN  /\ Range(G.nodes) = {p[1] : p \in sent} \cup {p[2] : p \in sent}
            /\ NoRepeat(G.nodes)
            /\ \A a \in Accounts :
                  /\ Range(G.succ[a]) = {p[2] : p \in {q \in sent : q[1] = a}}
                  /\ Range(G.pred[a]) = {p[1] : p \in {q \in sent : q[2] = a}}
                  /\ NoRepeat(G.succ[a]) /\ NoRepeat(G.pred[a])

\* A graph with an edge whose transactions are several and all without a
\* timestamp.
C14_Witness ==
    /\ pc = "cycles"
    /\ \E a, b \in Accounts :
          /\ Cardinality(Transfers(a, b)) >= 2
          /\ \A i \in Transfers(a, b) : ledger[i].timestamp = NULL
          /\ Contains(G.succ[a], b)

\* The entries of suspicious_accounts for account a.
EntriesOf(a) ==
    {i \in 1 .. Len(suspicious_accounts) : suspicious_accounts[i].account_id = a}

HasScore(a) ==
    \E j \in 1 .. Len(risk_df) : risk_df[j].account_id = a /\ risk_df[j].score > 0

\* C15: suspicious_accounts holds one entry for each account with a score
\* above 0 and none for any other account; the summary counts that list, the
\* rings and the nodes of the graph.
C15_SuspiciousAndSummary ==
    OutputBuilt =>
        /\ \A a \in Accounts :
              Cardinality(EntriesOf(a)) = (IF HasScore(a) THEN 1 ELSE 0)
        /\ Len(summary) = 1
        /\ summary[1].suspicious_accounts_flagged = Len(suspicious_accounts)
        /\ summary[1].fraud_rings_detected = Len(fraud_rings)
        /\ summary[1].total_accounts_analyzed = Cardinality(Range(G.nodes))

\* An output with a ring, an account listed as suspicious and a node of score
\* 0 that is not listed.
C15_Witness ==
    /\ pc = "done"
    /\ fraud_rings # <<>>
    /\ suspicious_accounts # <<>>
    /\ \E j \in 1 .. Len(risk_df) :
          risk_df[j].score = 0 /\ EntriesOf(risk_df[j].account_id) = {}

\* How often account a occurs in the ledger, as sender plus as receiver.
Occurrences(a) ==
    Cardinality({i \in 1 .. Len(ledger) : ledger[i].sender_id = a})
    + Cardinality({i \in 1 .. Len(ledger) : ledger[i].receiver_id = a})

Candidate(a) == Occurrences(a) \in 2 .. 3

ShellsDone == pc \notin {"queued", "load", "except", "raised", "smurfing",
                         "build_graph", "cycles", "dfs", "shells"}

\* C19 as claimed: after the shell step an account is in flags.shells exactly
\* if it is a candidate and some transaction goes between it and another
\* candidate, in either direction.
C19_ShellRule ==
    ShellsDone =>
        \A a \in Accounts :
            a \in flags.shells <=>
                /\ Candidate(a)
                /\ \E b \in Accounts \ {a} :
                      /\ Candidate(b)
                      /\ Transfers(a, b) # {} \/ Transfers(b, a) # {}

\* The accounts that sent to a (Senders) or received from a (Receivers).
Senders(a) == {b \in Accounts : Transfers(b, a) # {}}

Receivers(a) == {b \in Accounts : Transfers(a, b) # {}}

LeastOf(S) == CHOOSE a \in S : \A b \in S : a <= b

\* What one turn of a fan loop does with the least account not visited yet,
\* whose neighbours are nb: a ring of the whole cluster if and only if the
\* cluster has three accounts and the account has no ring assignment, the
\* account and the unassigned members being assigned to it; nothing otherwise.
FanRule(flagged, nb, pattern_type) ==
    LET a == LeastOf(todo)
        cluster == {a} \cup nb
        n == Len(fraud_rings)
    IN  /\ todo \subseteq flagged
        /\ \A b \in flagged \ todo : b < a
        /\ IF Cardinality(cluster) >= 3 /\ a \notin DOMAIN account_ring_map
           THEN /\ Len(fraud_rings') = n + 1
                /\ SubSeq(fraud_rings', 1, n) = fraud_rings
                /\ fraud_rings'[n + 1].pattern_type = pattern_type
                /\ Range(fraud_rings'[n + 1].member_accounts) = cluster
                /\ Len(fraud_rings'[n + 1].member_accounts) = Cardinality(cluster)
                /\ DOMAIN account_ring_map' = DOMAIN account_ring_map \cup cluster
                /\ account_ring_map'[a] = fraud_rings'[n + 1].ring_id
                /\ \A m \in DOMAIN account_ring_map' :
                      account_ring_map'[m] =
                         IF m \in DOMAIN account_ring_map
                         THEN account_ring_map[m]
                         ELSE fraud_rings'[n + 1].ring_id
           ELSE /\ fraud_rings' = fraud_rings
                /\ account_ring_map' = account_ring_map

LoopRank(t) ==
    CASE t = "cycle" -> 1
      [] t = "fan_in" -> 2
      [] t = "fan_out" -> 3
      [] t = "shell_layering" -> 4

\* C17: at every moment the k-th ring of the list has the id RING_ followed
\* by k as three digits, so ids have neither gaps nor repeats, and the types
\* follow the loop order (cycle, fan_in, fan_out, shell_layering); rings are
\* only ever appended.
C17_RingNumbering ==
    /\ [](\A k \in 1 .. Len(fraud_rings) :
             LET id == fraud_rings[k].ring_id
             IN  /\ Len(id) = 4 /\ id[1] = "RING"
                 /\ \A d \in 2 .. 4 : id[d] \in 0 .. 9
                 /\ 100 * id[2] + 10 * id[3] + id[4] = k
                 /\ \A j \in 1 .. k - 1 :
                       LoopRank(fraud_rings[j].pattern_type)
                          <= LoopRank(fraud_rings[k].pattern_type))
    /\ [][\/ fraud_rings' = fraud_rings
          \/ /\ Len(fraud_rings') = Len(fraud_rings) + 1
             /\ SubSeq(fraud_rings', 1, Len(fraud_rings)) = fraud_rings]_vars

\* A report with rings of three types.
C17_Witness ==
    /\ pc = "done"
    /\ Cardinality({fraud_rings[k].pattern_type : k \in 1 .. Len(fraud_rings)}) >= 3

\* The ledger's rows are not in ascending (sender, receiver) order.
Shuffled ==
    \E i \in 1 .. Len(ledger) - 1 :
        \/ ledger[i].sender_id > ledger[i + 1].sender_id
        \/ /\ ledger[i].sender_id = ledger[i + 1].sender_id
           /\ ledger[i].receiver_id > ledger[i + 1].receiver_id

\* C18: whatever order the rows are stored in (hence the order of G's nodes
\* and of every node's successors) and whatever order the shell candidates
\* are visited in, analyze_networks ends with the same flags, which depend on
\* the set of transactions only: cycles holds the accounts on a simple cycle
\* of 3 to 5 accounts, shells the candidates with a transfer to or from a
\* candidate.
C18_OrderFree ==
    ShellsDone =>
        /\ flags.cycles =
              {v \in Accounts : \E n \in 3 .. 5 : OnCycle(v, n, Accounts)}
        /\ flags.shells =
              {a \in Accounts :
                  /\ Candidate(a)
                  /\ \E b \in Accounts :
                        /\ Candidate(b)
                        /\ Transfers(a, b) # {} \/ Transfers(b, a) # {}}

\* Rows out of order, a start node that the search passed over because an
\* earlier start had flagged it, and a chain of three transfers between
\* shell candidates.
C18_Witness ==
    /\ pc = "score"
    /\ Shuffled
    /\ \E i \in 2 .. Len(G.nodes) :
          /\ G.nodes[i] \in flags.cycles
          /\ ~OnCycle(G.nodes[i], 3, Accounts)
    /\ \E a, b, c, d \in flags.shells :
          /\ Cardinality({a, b, c, d}) = 4
          /\ Transfers(a, b) # {} /\ Transfers(b, c) # {} /\ Transfers(c, d) # {}

\* The dataset has been analysed again and the later run has completed.
RanAgain == pc = "done" /\ analysis_results # <<>>

\* C11 as claimed: a later analysis of the same transactions stores the same
\* flags, the same risk entries and the same fraud rings (ids, member lists,
\* pattern types, risk scores) as the earlier one.
C11_SameReport ==
    RanAgain =>
        \A i \in 1 .. Len(analysis_results) :
            /\ analysis_results[i].flags_json = analysis.flags_json
            /\ analysis_results[i].risk_json = analysis.risk_json
            /\ analysis_results[i].stats_json[1].fraud_rings
                  = analysis.stats_json[1].fraud_rings

\* A search has returned.
Searched == pc = "found" /\ search # <<>>

Asked == search[1]

\* The accounts of some transaction.
InLedger(a) == \E b \in Accounts : Transfers(a, b) # {} \/ Transfers(b, a) # {}

\* C12: a search for a target that is not in the graph returns no match node
\* and no match edge (so a match count of 0), raises nothing and has looked at
\* no candidate.
C12_AbsentTarget ==
    (Searched /\ ~InLedger(Asked.target_node)) =>
        /\ Asked.result.match_nodes = {}
        /\ Asked.result.match_edges = {}
        /\ Cardinality(Asked.result.match_nodes) = 0
        /\ ~Asked.result.raised
        /\ Asked.result.examined = {}

\* A search of the widest radius for an absent target in a graph of four
\* transfers or more.
C12_Witness ==
    /\ Searched
    /\ ~InLedger(Asked.target_node)
    /\ Len(ledger) >= 4
    /\ Asked.hops = MaxHops

\* The transfers of the ledger: (sender, receiver) pairs.
TransferPairs ==
    {<<ledger[i].sender_id, ledger[i].receiver_id>> : i \in 1 .. Len(ledger)}

\* The accounts within r transfers of those of S, in either direction.
RECURSIVE Near(_, _, _)
Near(E, S, r) ==
    IF r = 0 THEN S
    ELSE Near(E, S \cup {e[2] : e \in {x \in E : x[1] \in S}}
                   \cup {e[1] : e \in {x \in E : x[2] \in S}}, r - 1)

\* The ego-network of account n: its accounts and the transfers among them.
Ego(E, n, r) ==
    LET near == Near(E, {n}, r)
    IN  [accounts |-> near,
         arcs |-> {e \in E : e[1] \in near /\ e[2] \in near}]

\* Two ego-networks have the same shape.
SameShape(h1, h2) ==
    /\ Cardinality(h1.accounts) = Cardinality(h2.accounts)
    /\ \E f \in [h1.accounts -> h2.accounts] :
          /\ \A a, b \in h1.accounts : f[a] = f[b] => a = b
          /\ \A a, b \in h1.accounts :
                <<a, b>> \in h1.arcs <=> <<f[a], f[b]>> \in h2.arcs

\* The accounts of the transfers E.
Parties(E) == {e[1] : e \in E} \cup {e[2] : e \in E}

Received(E, n) == Cardinality({e \in E : e[2] = n})

Sent(E, n) == Cardinality({e \in E : e[1] = n})

SameDegrees(E, n, m) ==
    Received(E, n) = Received(E, m) /\ Sent(E, n) = Sent(E, m)

\* The accounts whose ego-network the search takes for a match.
Clones(E, t, r) ==
    LET ref == Ego(E, t, r)
    IN  {n \in Parties(E) :
            SameDegrees(E, n, t) /\ SameShape(ref, Ego(E, n, r))}

\* Two stars of two transfers each, centred on accounts 1 and 4.
TwoStars == TransferPairs = {<<1, 2>>, <<1, 3>>, <<4, 5>>, <<4, 6>>}

\* C13: for a target in the graph the match nodes and the match edges are
\* the union of the nodes and of the edges of the ego-networks of all nodes
\* with the target's in-degree and out-degree, an ego-network of the same
\* size and an ego-network isomorphic to the target's; the target's own
\* ego-network is part of it; and for two disjoint stars of the same shape a
\* search from one centre returns both stars whole.
C13_UnionOfClones ==
    (Searched /\ InLedger(Asked.target_node)) =>
        LET E == TransferPairs
            t == Asked.target_node
            r == Asked.hops
            clones == Clones(E, t, r)
        IN  /\ Asked.result.match_nodes = UNION {Ego(E, n, r).accounts : n \in clones}
            /\ Asked.result.match_edges = UNION {Ego(E, n, r).arcs : n \in clones}
            /\ Ego(E, t, r).accounts \subseteq Asked.result.match_nodes
            /\ Ego(E, t, r).arcs \subseteq Asked.result.match_edges
            /\ (TwoStars /\ t = 1) =>
                  /\ Asked.result.match_nodes = 1 .. 6
                  /\ Asked.result.match_edges = E

\* The search from the centre of one of two stars.
C13_Witness ==
    /\ Searched
    /\ TwoStars
    /\ Asked.target_node = 1
    /\ Asked.hops = 1
    /\ Asked.result.match_nodes = 1 .. 6

\* C20 as claimed: every node whose ego-network is isomorphic to the
\* target's has the target's in-degree and out-degree, so the degree test
\* passes over no node that the isomorphism test would accept.
C20_DegreeFilterNecessary ==
    (Searched /\ InLedger(Asked.target_node)) =>
        LET E == TransferPairs
            t == Asked.target_node
            r == Asked.hops
            ref == Ego(E, t, r)
        IN  \A n \in Parties(E) :
                SameShape(ref, Ego(E, n, r)) => SameDegrees(E, n, t)

\* C22: the suspicious_accounts list is in non-increasing order of
\* suspicion_score.
C22_SortedByScore ==
    \A i, j \in 1 .. Len(suspicious_accounts) :
        i < j => suspicious_accounts[i].suspicion_score
                    >= suspicious_accounts[j].suspicion_score

\* A report whose risk table holds a scored row before a row of a higher
\* score, so that the sort moved an entry.
C22_Witness ==
    /\ pc = "done"
    /\ Len(suspicious_accounts) >= 3
    /\ \E i, j \in 1 .. Len(risk_df) :
          i < j /\ risk_df[i].score > 0 /\ risk_df[i].score < risk_df[j].score

\* Some simple directed path leads from account `from` to account `to`
\* through every account of `rest` once, and through no other.
RECURSIVE PathThrough(_, _, _)
PathThrough(from, to, rest) ==
    IF rest = {} THEN from = to
    ELSE \E x \in rest : Arc(from, x) /\ PathThrough(x, to, rest \ {x})

StackEntryOk(e, start) ==
    /\ e.depth = Cardinality(e.path_nodes)
    /\ e.depth >= 1 /\ e.depth <= 5
    /\ start \in e.path_nodes
    /\ e.curr \in e.path_nodes
    /\ PathThrough(start, e.curr, e.path_nodes \ {start})

\* C30: while the search from a start node runs, and in the stack every turn
\* of it leaves, each entry (current, visited, depth) has depth = |visited|
\* between 1 and 5, holds the start node and the current node in visited, and
\* visited is the node set of a simple directed path from the start node to
\* the current node.
C30_StackInvariant ==
    /\ [](pc = "dfs" =>
             \A i \in 1 .. Len(stack) : StackEntryOk(stack[i], G.nodes[start_idx]))
    /\ [][pc = "dfs" =>
             \A i \in 1 .. Len(stack') : StackEntryOk(stack'[i], G.nodes[start_idx])]_vars

\* A stack of several entries, one of them at depth 5.
C30_Witness ==
    /\ pc = "dfs"
    /\ Len(stack) >= 3
    /\ \E i \in 1 .. Len(stack) : stack[i].depth = 5

\* The entries a scan of the successors `succs` of entry e pushes.
RECURSIVE Pushed(_, _)
Pushed(e, succs) ==
    IF succs = <<>> THEN <<>>
    ELSE IF Head(succs) \notin e.path_nodes /\ e.depth < 5
         THEN <<[curr |-> Head(succs),
                 path_nodes |-> e.path_nodes \cup {Head(succs)},
                 depth |-> e.depth + 1]>> \o Pushed(e, Tail(succs))
         ELSE Pushed(e, Tail(succs))

\* One turn of the search: the top entry e is popped; if e is at depth 3 or
\* more and the start node is among the successors of its node, the search
\* from this start node is over, the accounts of e's path and no others are
\* flagged, and the stack holds the entries below e and what was pushed for
\* the successors before the start node; otherwise nothing is flagged.
SearchTurn ==
    LET e == stack[Len(stack)]
        start == G.nodes[start_idx]
        succs == G.succ[e.curr]
        below == SubSeq(stack, 1, Len(stack) - 1)
        hits == {k \in 1 .. Len(succs) : succs[k] = start}
    IN  IF e.depth >= 3 /\ hits # {}
        THEN LET first == CHOOSE k \in hits : \A j \in hits : k <= j
             IN  /\ found_cycle'
                 /\ pc' = "cycles"
                 /\ suspect_cycle_nodes' = suspect_cycle_nodes \cup e.path_nodes
                 /\ stack' = below \o Pushed(e, SubSeq(succs, 1, first - 1))
        ELSE /\ ~found_cycle'
             /\ suspect_cycle_nodes' = suspect_cycle_nodes
             /\ stack' = below \o Pushed(e, succs)
             /\ pc' = "cycles" <=> stack' = <<>>

\* C21: the search from every start node comes to an end, and so does the
\* whole cycle search; a search that has found a cycle takes no further turn
\* (nothing more is popped or pushed for that start node), and the turn that
\* finds the cycle flags the accounts of that one path only.
C21_SearchEnds ==
    /\ (pc = "dfs") ~> (pc = "cycles")
    /\ (pc = "cycles") ~> (pc = "shells")
    /\ [](pc = "dfs" => ~found_cycle /\ stack # <<>>)
    /\ [][pc = "dfs" => SearchTurn]_vars

\* A search stopped at its first cycle with entries left on the stack and an
\* account of another cycle not flagged.
C21_Witness ==
    /\ pc = "cycles"
    /\ found_cycle
    /\ stack # <<>>
    /\ \E v \in Accounts \ suspect_cycle_nodes :
          \E n \in 3 .. 5 : OnCycle(v, n, Accounts)

\* The loop over the cycle subgraph's components is over.
CycleRingsDone ==
    pc \in {"ring_fan_in", "ring_fan_out", "ring_shell", "accounts", "persist",
            "done"}

\* C26: once the cycle search is over, the weakly-connected component of
\* every cycle-flagged account in the subgraph induced by the cycle-flagged
\* accounts has three members or more; and once the loop over these
\* components is over, every cycle-flagged account is assigned to a ring of
\* type cycle that lists it.
C26_CycleFlaggedInRing ==
    /\ GraphBuilt /\ pc \notin {"cycles", "dfs"} =>
          \A a \in flags.cycles :
             Cardinality(Grow(G, SubgraphNodes(G, flags.cycles), {a})) >= 3
    /\ CycleRingsDone =>
          \A a \in flags.cycles :
             /\ a \in DOMAIN account_ring_map
             /\ \E k \in 1 .. Len(fraud_rings) :
                   /\ fraud_rings[k].ring_id = account_ring_map[a]
                   /\ fraud_rings[k].pattern_type = "cycle"
                   /\ a \in Range(fraud_rings[k].member_accounts)

\* A run that ended with a cycle of exactly three accounts, one of them a
\* shell account as well, all assigned to the cycle ring.
C26_Witness ==
    /\ pc = "done"
    /\ Cardinality(flags.cycles) = 3
    /\ flags.cycles \cap flags.shells # {}
    /\ \A a \in flags.cycles : a \in DOMAIN account_ring_map

\* C28: a search from any account Y that has the target's in-degree and
\* out-degree and an ego-network of the target's size and shape at the
\* radius asked for returns the match nodes and the match edges that the
\* search from the target returned.
C28_SymmetricQueries ==
    (Searched /\ InLedger(Asked.target_node)) =>
        LET E == TransferPairs
            X == Asked.target_node
            h == Asked.hops
        IN  \A Y \in Clones(E, X, h) :
                LET other == find_structural_clones(G, Y, h)
                IN  /\ other.match_nodes = Asked.result.match_nodes
                    /\ other.match_edges = Asked.result.match_edges

\* A search at the widest radius whose target has a clone with another
\* ego-network.
C28_Witness ==
    /\ Searched
    /\ InLedger(Asked.target_node)
    /\ Asked.hops = MaxHops
    /\ \E Y \in Clones(TransferPairs, Asked.target_node, Asked.hops) :
          Ego(TransferPairs, Y, Asked.hops).accounts
              # Ego(TransferPairs, Asked.target_node, Asked.hops).accounts

\* The labels a cycle-flagged account may carry.
CycleLabels == {CycleLabel(n) : n \in 1 .. 6} \cup {"cycle"}

\* The place of a pattern in the order of the list.
PatternRank(p) ==
    CASE p \in CycleLabels -> 1
      [] p = "high_velocity" -> 2
      [] p = "fan_in_aggregator" -> 3
      [] p = "fan_out_disperser" -> 4
      [] p = "shell_layer" -> 5
      [] OTHER -> 0

\* How often pattern p stands in the list ps.
Times(ps, p) == Cardinality({i \in 1 .. Len(ps) : ps[i] = p})

\* C23: in every entry the detected patterns stand in the order cycle label,
\* high_velocity, fan_in_aggregator, fan_out_disperser, shell_layer, each of
\* them there exactly if its flag is set for the account (high_velocity for
\* fan_in or fan_out) and none of them twice; for an account that is both a
\* fan_in and a fan_out account high_velocity stands once, before
\* fan_in_aggregator.
C23_PatternOrder ==
    OutputBuilt =>
        \A i \in 1 .. Len(suspicious_accounts) :
            LET a == suspicious_accounts[i].account_id
                ps == suspicious_accounts[i].detected_patterns
            IN  /\ \A j \in 1 .. Len(ps) : PatternRank(ps[j]) # 0
                /\ \A j, k \in 1 .. Len(ps) :
                      j < k => PatternRank(ps[j]) < PatternRank(ps[k])
                /\ (\E j \in 1 .. Len(ps) : ps[j] \in CycleLabels)
                       <=> a \in flags.cycles
                /\ Contains(ps, "high_velocity")
                       <=> a \in flags.fan_in \cup flags.fan_out
                /\ Contains(ps, "fan_in_aggregator") <=> a \in flags.fan_in
                /\ Contains(ps, "fan_out_disperser") <=> a \in flags.fan_out
                /\ Contains(ps, "shell_layer") <=> a \in flags.shells
                /\ a \in flags.fan_in \cap flags.fan_out =>
                      /\ Times(ps, "high_velocity") = 1
                      /\ \E j, k \in 1 .. Len(ps) :
                            /\ j < k
                            /\ ps[j] = "high_velocity"
                            /\ ps[k] = "fan_in_aggregator"

\* The report lists an account that is a fan_in and a fan_out account, and
\* an entry of three patterns or more.
C23_Witness ==
    /\ pc = "done"
    /\ \E i \in 1 .. Len(suspicious_accounts) :
          suspicious_accounts[i].account_id \in flags.fan_in \cap flags.fan_out
    /\ \E i \in 1 .. Len(suspicious_accounts) :
          Len(suspicious_accounts[i].detected_patterns) >= 3

\* C27: the entry of every cycle-flagged account carries exactly one cycle
\* label, cycle_length_N with N between 1 and 6 the length of a simple
\* directed cycle through the account among the cycle-flagged accounts, and
\* never the label "cycle".
C27_CycleLabel ==
    OutputBuilt =>
        \A i \in 1 .. Len(suspicious_accounts) :
            LET a == suspicious_accounts[i].account_id
                ps == suspicious_accounts[i].detected_patterns
            IN  a \in flags.cycles =>
                   /\ ~Contains(ps, "cycle")
                   /\ \E N \in 1 .. 6 :
                         /\ Times(ps, CycleLabel(N)) = 1
                         /\ \A M \in (1 .. 6) \ {N} : ~Contains(ps, CycleLabel(M))
                         /\ OnCycle(a, N, flags.cycles)

\* A cycle-flagged account that is on cycles of two lengths and carries the
\* label of the shorter one, which the cycle search does not look for.
C27_Witness ==
    /\ pc = "done"
    /\ \E i \in 1 .. Len(suspicious_accounts) :
          LET a == suspicious_accounts[i].account_id
          IN  /\ a \in flags.cycles
              /\ OnCycle(a, 3, flags.cycles)
              /\ \E N \in 1 .. 2 :
                    Contains(suspicious_accounts[i].detected_patterns, CycleLabel(N))

\* None of the results of a run is in the row.
NoResults(row) ==
    /\ row.graph_json = <<>>
    /\ row.risk_json = <<>>
    /\ row.flags_json = <<>>
    /\ row.stats_json = <<>>
    /\ row.completed_at = <<>>

\* C24 as claimed: when a step of the run has raised after status running
\* was committed, the run is over with status failed and an error message
\* that is not empty, none of graph_json, risk_json, flags_json, stats_json
\* and completed_at written, and the dataset not completed.
C24_FailureRecorded ==
    pc = "raised" =>
        /\ analysis.status = "failed"
        /\ analysis.error_message # <<>>
        /\ analysis.error_message # <<"">>
        /\ NoResults(analysis)
        /\ dataset_status # "completed"

\* Every result of a run is in the row.
AllResults(row) ==
    /\ row.graph_json # <<>>
    /\ row.risk_json # <<>>
    /\ row.flags_json # <<>>
    /\ row.stats_json # <<>>
    /\ row.completed_at # <<>>

StatusMoves ==
    {<<"pending", "running">>, <<"running", "completed">>, <<"running", "failed">>}

Highlighted(row) ==
    [nodes |-> {n.id : n \in {m \in row.graph_json[1].nodes : m.is_match = 1}},
     links |-> {<<l.source, l.target>> :
                  l \in {k \in Range(row.graph_json[1].links) : k.is_match = 1}}]

\* The searches of the current analysis whose update was committed.
Committed == {i \in 1 .. Len(search) : search[i].committed}

=============================================================================
